---- MODULE Spec2Model ----
(***************************************************************************)
(* A model of the reconciliation control loop of sous:                     *)
(*   - deploymentBundle and DiffConcentrator (lib/diff_concentrator.go)    *)
(*   - SingleDeploymentPoller (lib/single_deployment_poller.go)            *)
(*   - Rectify and its workers (sous/rectifier.go)                         *)
(***************************************************************************)
EXTENDS Integers, Sequences, FiniteSets, Bags, TLC

(***************************************************************************)
(* Bounds of the model.                                                    *)
(***************************************************************************)
\* Number of events the concentrator receives in total over one run.
MaxEvents == 3

\* The same for the runs checked for termination under fairness.
MaxLiveEvents == 2

\* Number of transport failures followed beyond the one that makes the
\* poller give up.
MaxGivenUp == 2

\* Number of events the workers of Rectify receive in total over one run.
MaxRectEvents == 2

\* The events of a run in which a cluster outside the configuration reports.
MaxWideEvents == 2

\* Number of events the concentrator receives in a run with collect as the
\* consumer of its outputs, and the largest capacity its output channels
\* are made with.
MaxCollectEvents == 2

MaxCap == 1

(***************************************************************************)
(* Data: deployments, pairs, manifests.                                    *)
(***************************************************************************)
\* con.Defs.Clusters: the configured clusters.
Clusters == {"c1", "c2"}

ManifestIDs == {"m1", "m2"}

\* A nil *Deployment.
NoDep == [mid |-> "-", cluster |-> "-", ver |-> 0]

Dep(m, c, v) == [mid |-> m, cluster |-> c, ver |-> v]

\* Deployment.ID(): the DeploymentID is ManifestID + cluster name.
DepID(d) == <<d.mid, d.cluster>>

\* The deployments the environment may report.  "" is an empty ClusterName.
DepDomain ==
  { Dep("m1", "c1", 1), Dep("m1", "c1", 2), Dep("m1", "c2", 1),
    Dep("m2", "c1", 1), Dep("m1", "", 1) }

\* A nil *Manifest.
NoMan == [id |-> "-", deps |-> {}]

\* Deployments.Add: the set is a map keyed by DeploymentID; Add refuses a key
\* that is already present and leaves the map as it was.
Accepts(ds, d) == ~ \E e \in ds : DepID(e) = DepID(d)

DeploymentsAdd(ds, d) == IF Accepts(ds, d) THEN ds \cup {d} ELSE ds

\* Deployments.PutbackManifests: one manifest per ManifestID found in the set,
\* holding the per-cluster specs of the deployments with that ID.
PutbackManifests(ds) ==
  { [id |-> m, deps |-> { <<d.cluster, d.ver>> : d \in { e \in ds : e.mid = m } }]
      : m \in { d.mid : d \in ds } }

\* Manifests.Only: nil for none, the manifest for one, an error for several.
Only(ms) ==
  IF Cardinality(ms) > 1 THEN [err |-> TRUE, m |-> NoMan]
  ELSE IF ms = {} THEN [err |-> FALSE, m |-> NoMan]
  ELSE [err |-> FALSE, m |-> CHOOSE x \in ms : TRUE]

\* Manifest.Equal: structural equality.
ManifestEqual(a, b) == a = b

(***************************************************************************)
(* deploymentBundle                                                        *)
(***************************************************************************)
newDepBundle == [consumed |-> FALSE, before |-> {}, after |-> {}]

\* deploymentBundle.add without its invariant checks (a fault of add).
addNoInvariant(db, pair) ==
  LET prior == pair.prior
      post  == pair.post
      priorOK == prior = NoDep \/ Accepts(db.before, prior)
      postOK  == post = NoDep \/ Accepts(db.after, post)
      before1 == IF prior # NoDep THEN DeploymentsAdd(db.before, prior) ELSE db.before
      after1  == IF post # NoDep THEN DeploymentsAdd(db.after, post) ELSE db.after
  IN  IF db.consumed THEN [err |-> "consumed", db |-> db]
      ELSE IF ~priorOK THEN [err |-> "collisionPrior", db |-> db]
      ELSE IF ~postOK
        THEN [err |-> "collisionPost", db |-> [db EXCEPT !.before = before1]]
      ELSE [err |-> "ok", db |-> [db EXCEPT !.before = before1, !.after = after1]]

\* deploymentBundle.add that overwrites instead of reporting a collision
\* (a fault of add).
addNoCollision(db, pair) ==
  LET prior == pair.prior
      post  == pair.post
      cluster0 == IF prior # NoDep THEN prior.cluster ELSE ""
      twoClusters == prior # NoDep /\ post # NoDep /\ cluster0 # post.cluster
      cluster == IF post # NoDep /\ prior = NoDep THEN post.cluster ELSE cluster0
      put(ds, d) == { e \in ds : DepID(e) # DepID(d) } \cup {d}
      before1 == IF prior # NoDep THEN put(db.before, prior) ELSE db.before
      after1  == IF post # NoDep THEN put(db.after, post) ELSE db.after
  IN  IF db.consumed THEN [err |-> "consumed", db |-> db]
      ELSE IF twoClusters THEN [err |-> "twoClusters", db |-> db]
      ELSE IF cluster = "" THEN [err |-> "noCluster", db |-> db]
      ELSE [err |-> "ok", db |-> [db EXCEPT !.before = before1, !.after = after1]]

\* deploymentBundle.add without its test of consumed (a fault of add).
addIgnoresConsumed(db, pair) ==
  LET prior == pair.prior
      post  == pair.post
      cluster0 == IF prior # NoDep THEN prior.cluster ELSE ""
      twoClusters == prior # NoDep /\ post # NoDep /\ cluster0 # post.cluster
      cluster == IF post # NoDep /\ prior = NoDep THEN post.cluster ELSE cluster0
      priorOK == prior = NoDep \/ Accepts(db.before, prior)
      postOK  == post = NoDep \/ Accepts(db.after, post)
      before1 == IF prior # NoDep THEN DeploymentsAdd(db.before, prior) ELSE db.before
      after1  == IF post # NoDep THEN DeploymentsAdd(db.after, post) ELSE db.after
  IN  IF twoClusters THEN [err |-> "twoClusters", db |-> db]
      ELSE IF cluster = "" THEN [err |-> "noCluster", db |-> db]
      ELSE IF ~priorOK THEN [err |-> "collisionPrior", db |-> db]
      ELSE IF ~postOK
        THEN [err |-> "collisionPost", db |-> [db EXCEPT !.before = before1]]
      ELSE [err |-> "ok", db |-> [db EXCEPT !.before = before1, !.after = after1]]

\* deploymentBundle.add that keeps, on each side, only the deployment that
\* arrived last (a fault of add: the bundle depends on the arrival order).
addLastWins(db, pair) ==
  LET prior == pair.prior
      post  == pair.post
      cluster0 == IF prior # NoDep THEN prior.cluster ELSE ""
      twoClusters == prior # NoDep /\ post # NoDep /\ cluster0 # post.cluster
      cluster == IF post # NoDep /\ prior = NoDep THEN post.cluster ELSE cluster0
      before1 == IF prior # NoDep THEN {prior} ELSE db.before
      after1  == IF post # NoDep THEN {post} ELSE db.after
  IN  IF db.consumed THEN [err |-> "consumed", db |-> db]
      ELSE IF twoClusters THEN [err |-> "twoClusters", db |-> db]
      ELSE IF cluster = "" THEN [err |-> "noCluster", db |-> db]
      ELSE [err |-> "ok", db |-> [db EXCEPT !.before = before1, !.after = after1]]

\* deploymentBundle.add: the error it returns ("ok" for nil) and the bundle
\* after the call.
add(db, pair) ==
  LET prior == pair.prior
      post  == pair.post
      cluster0 == IF prior # NoDep THEN prior.cluster ELSE ""
      twoClusters == prior # NoDep /\ post # NoDep /\ cluster0 # post.cluster
      cluster == IF post # NoDep /\ prior = NoDep THEN post.cluster ELSE cluster0
      priorOK == prior = NoDep \/ Accepts(db.before, prior)
      postOK  == post = NoDep \/ Accepts(db.after, post)
      before1 == IF prior # NoDep THEN DeploymentsAdd(db.before, prior) ELSE db.before
      after1  == IF post # NoDep THEN DeploymentsAdd(db.after, post) ELSE db.after
  IN  IF db.consumed THEN [err |-> "consumed", db |-> db]
      ELSE IF twoClusters THEN [err |-> "twoClusters", db |-> db]
      ELSE IF cluster = "" THEN [err |-> "noCluster", db |-> db]
      ELSE IF ~priorOK THEN [err |-> "collisionPrior", db |-> db]
      ELSE IF ~postOK
        THEN [err |-> "collisionPost", db |-> [db EXCEPT !.before = before1]]
      ELSE [err |-> "ok", db |-> [db EXCEPT !.before = before1, !.after = after1]]

\* deploymentBundle.clusters: the cluster names of both sides, without
\* duplicates.
clusters(db) == { d.cluster : d \in db.before \cup db.after }

\* deploymentBundle.manifestPair that names the pair after Prior first
\* (a fault of manifestPair).
manifestPairPriorName(db) ==
  LET pr == Only(PutbackManifests(db.before))
      po == Only(PutbackManifests(db.after))
      db1 == [db EXCEPT !.consumed = TRUE]
      none == [name |-> "-", prior |-> NoMan, post |-> NoMan]
  IN  IF pr.err \/ po.err THEN [db |-> db1, err |-> "ambiguous", mp |-> none]
      ELSE IF po.m = NoMan /\ pr.m = NoMan
        THEN [db |-> db1, err |-> "panic", mp |-> none]
      ELSE [db |-> db1, err |-> "ok",
            mp |-> [name |-> IF pr.m = NoMan THEN po.m.id ELSE pr.m.id,
                    prior |-> pr.m, post |-> po.m]]

\* deploymentBundle.manifestPair that forgets to set consumed (a fault of
\* manifestPair).
manifestPairNoMark(db) ==
  LET pr == Only(PutbackManifests(db.before))
      po == Only(PutbackManifests(db.after))
      none == [name |-> "-", prior |-> NoMan, post |-> NoMan]
  IN  IF pr.err \/ po.err THEN [db |-> db, err |-> "ambiguous", mp |-> none]
      ELSE IF po.m = NoMan /\ pr.m = NoMan
        THEN [db |-> db, err |-> "panic", mp |-> none]
      ELSE [db |-> db, err |-> "ok",
            mp |-> [name |-> IF po.m = NoMan THEN pr.m.id ELSE po.m.id,
                    prior |-> pr.m, post |-> po.m]]

\* deploymentBundle.manifestPair: sets consumed, folds each side back into at
\* most one manifest and names the pair.  err is "ambiguous" when Only fails,
\* "panic" when both sides are nil (res.Prior.ID() on a nil *Manifest).
manifestPair(db) ==
  LET pr == Only(PutbackManifests(db.before))
      po == Only(PutbackManifests(db.after))
      db1 == [db EXCEPT !.consumed = TRUE]
      none == [name |-> "-", prior |-> NoMan, post |-> NoMan]
  IN  IF pr.err \/ po.err THEN [db |-> db1, err |-> "ambiguous", mp |-> none]
      ELSE IF po.m = NoMan /\ pr.m = NoMan
        THEN [db |-> db1, err |-> "panic", mp |-> none]
      ELSE [db |-> db1, err |-> "ok",
            mp |-> [name |-> IF po.m = NoMan THEN pr.m.id ELSE po.m.id,
                    prior |-> pr.m, post |-> po.m]]

(***************************************************************************)
(* DiffConcentrator                                                        *)
(***************************************************************************)
InChans == {"created", "deleted", "retained", "modified"}

OutChans == {"Created", "Deleted", "Retained", "Modified", "Errors"}

DiffChans == OutChans \ {"Errors"}

\* A value sent on an output channel.  Created, Deleted and Retained carry one
\* manifest, Modified carries the pair, Errors carries an error.
Msg(ch, prior, post, err) == [ch |-> ch, prior |-> prior, post |-> post, err |-> err]

ErrMsg(e) == Msg("Errors", NoMan, NoMan, e)

\* DiffConcentrator.dispatch that tests Post before Prior (a fault of dispatch).
dispatchPostFirst(mp) ==
  IF mp.post = NoMan
    THEN IF mp.prior = NoMan
           THEN [err |-> "blank", sends |-> << >>]
           ELSE [err |-> "ok", sends |-> << Msg("Deleted", mp.prior, NoMan, "") >>]
  ELSE IF mp.prior = NoMan
    THEN [err |-> "ok", sends |-> << Msg("Created", NoMan, mp.post, "") >>]
  ELSE IF ManifestEqual(mp.prior, mp.post)
    THEN [err |-> "ok", sends |-> << Msg("Modified", mp.prior, mp.post, "") >>]
  ELSE [err |-> "ok", sends |-> << Msg("Retained", NoMan, mp.post, "") >>]

\* DiffConcentrator.dispatch: the sends it makes and the error it returns.
dispatch(mp) ==
  IF mp.prior = NoMan
    THEN IF mp.post = NoMan
           THEN [err |-> "blank", sends |-> << >>]
           ELSE [err |-> "ok", sends |-> << Msg("Created", NoMan, mp.post, "") >>]
  ELSE IF mp.post = NoMan
    THEN [err |-> "ok", sends |-> << Msg("Deleted", mp.prior, NoMan, "") >>]
  ELSE IF ManifestEqual(mp.prior, mp.post)
    THEN [err |-> "ok", sends |-> << Msg("Retained", NoMan, mp.post, "") >>]
  ELSE [err |-> "ok", sends |-> << Msg("Modified", mp.prior, mp.post, "") >>]

\* DiffConcentrator.resolve: the bundle after manifestPair, the sends made,
\* and whether the call panicked.
resolve(bundle) ==
  LET r == manifestPair(bundle)
      d == dispatch(r.mp)
  IN  IF r.err = "panic" THEN [db |-> r.db, sends |-> << >>, panic |-> TRUE]
      ELSE IF r.err # "ok"
        THEN [db |-> r.db, sends |-> << ErrMsg(r.err) >>, panic |-> FALSE]
      ELSE IF d.err # "ok"
        THEN [db |-> r.db, sends |-> d.sends \o << ErrMsg(d.err) >>, panic |-> FALSE]
      ELSE [db |-> r.db, sends |-> d.sends, panic |-> FALSE]

\* The bundle map with the bundle of mid set to db.
Put(coll, mid, db) ==
  [m \in DOMAIN coll \cup {mid} |-> IF m = mid THEN db ELSE coll[m]]

\* The addPair closure without its return after an error of add (a fault of
\* addPair).
addPairNoReturn(coll, mid, dp) ==
  LET b0 == IF mid \in DOMAIN coll THEN coll[mid] ELSE newDepBundle
      a  == add(b0, dp)
      r  == resolve(a.db)
      e  == IF a.err # "ok" THEN << ErrMsg(a.err) >> ELSE << >>
  IN  IF Cardinality(clusters(a.db)) = Cardinality(Clusters)
        THEN [coll |-> Put(coll, mid, r.db), sends |-> e \o r.sends, panic |-> r.panic]
      ELSE [coll |-> Put(coll, mid, a.db), sends |-> e, panic |-> FALSE]

\* The addPair closure of concentrate.
addPair(coll, mid, dp) ==
  LET b0 == IF mid \in DOMAIN coll THEN coll[mid] ELSE newDepBundle
      a  == add(b0, dp)
      r  == resolve(a.db)
  IN  IF a.err # "ok"
        THEN [coll |-> Put(coll, mid, a.db), sends |-> << ErrMsg(a.err) >>,
              panic |-> FALSE]
      ELSE IF Cardinality(clusters(a.db)) = Cardinality(Clusters)
        THEN [coll |-> Put(coll, mid, r.db), sends |-> r.sends, panic |-> r.panic]
      ELSE [coll |-> Put(coll, mid, a.db), sends |-> << >>, panic |-> FALSE]

\* The number of fields (ManifestID, cluster, version) two deployments differ in.
Differences(a, b) ==
  (IF a.mid # b.mid THEN 1 ELSE 0) + (IF a.cluster # b.cluster THEN 1 ELSE 0)
    + (IF a.ver # b.ver THEN 1 ELSE 0)

\* The reported deployments that name a cluster.
NamedDeps == { d \in DepDomain : d.cluster # "" }

\* The events a channel may carry: created pairs have no Prior, deleted pairs
\* no Post, retained pairs two equal sides, modified pairs two sides that
\* differ (here in one field).
Events ==
  { [ch |-> "created", prior |-> NoDep, post |-> d] : d \in DepDomain } \cup
  { [ch |-> "deleted", prior |-> d, post |-> NoDep] : d \in NamedDeps } \cup
  { [ch |-> "retained", prior |-> d, post |-> d] : d \in NamedDeps } \cup
  { [ch |-> "modified", prior |-> p[1], post |-> p[2]]
      : p \in { q \in NamedDeps \X NamedDeps : Differences(q[1], q[2]) = 1 } }

\* A deployment reported for a cluster that is not in con.Defs.Clusters.
UnconfiguredDep == Dep("m1", "c3", 1)

\* The events of a differ that also sees the unconfigured cluster.
WideEvents ==
  Events \cup
  { [ch |-> "created", prior |-> NoDep, post |-> UnconfiguredDep],
    [ch |-> "deleted", prior |-> UnconfiguredDep, post |-> NoDep] }

\* The ManifestID concentrate files an event under: Post's for created and
\* retained events, Prior's for deleted and modified ones.
KeyOf(ev) ==
  IF ev.ch \in {"created", "retained"} THEN ev.post.mid ELSE ev.prior.mid

(***************************************************************************)
(* SingleDeploymentPoller                                                  *)
(***************************************************************************)
\* The deployment the poller watches: a source location and a version tag.
Target == [loc |-> "app", tag |-> "new"]

\* A nil *Deployment in a status report.
NoIntent == [loc |-> "-", tag |-> "-"]

\* A nil *DiffResolution.
NoRez == [mid |-> "-", desc |-> "-", err |-> "-"]

\* A nil *ResolveStatus.
NoStatus == [present |-> FALSE, intended |-> << >>, log |-> << >>]

\* locationFilter: the base filter with cluster, tag and revision cleared.
LocationFilterDeployment(d) == d.loc = Target.loc

LocationFilterManifestID(mid) == mid = Target.loc

\* idFilter: the base filter with only the cluster cleared.
IDFilterDeployment(d) == d.loc = Target.loc /\ d.tag = Target.tag

\* IsTransientResolveError.
IsTransientResolveError(e) == e = "transient"

\* diffResolutionForSDP: the first log entry for the watched ManifestID.
diffResolutionForSDP(rstat) ==
  LET hits == { i \in 1..Len(rstat.log) : LocationFilterManifestID(rstat.log[i].mid) }
  IN  IF ~ rstat.present \/ hits = {} THEN NoRez
      ELSE rstat.log[CHOOSE i \in hits : \A j \in hits : i <= j]

\* serverIntentSDP: the intended deployment at the watched location, nil when
\* there is none or more than one.
serverIntentSDP(rstat) ==
  LET hits == { i \in 1..Len(rstat.intended) : LocationFilterDeployment(rstat.intended[i]) }
  IN  IF ~ rstat.present \/ Cardinality(hits) # 1 THEN NoIntent
      ELSE rstat.intended[CHOOSE i \in hits : TRUE]

\* stateFeatures.
stateFeatures(rstat) ==
  [intent |-> serverIntentSDP(rstat), current |-> diffResolutionForSDP(rstat)]

\* computeState with the log entry tested before the intent (a fault of
\* computeState).
computeStateLogFirst(srvIntent, current) ==
  IF current = NoRez THEN [stat |-> "PendingRequest", err |-> "none"]
  ELSE IF srvIntent = NoIntent THEN [stat |-> "NotStarted", err |-> "none"]
  ELSE IF ~ IDFilterDeployment(srvIntent) THEN [stat |-> "NotVersion", err |-> "none"]
  ELSE IF current.err # "none"
    THEN IF IsTransientResolveError(current.err)
           THEN [stat |-> "ErredRez", err |-> current.err]
           ELSE [stat |-> "Failed", err |-> current.err]
  ELSE IF current.desc = "stable" THEN [stat |-> "Complete", err |-> "none"]
  ELSE IF current.desc = "coming" THEN [stat |-> "TasksStarting", err |-> "none"]
  ELSE [stat |-> "InProgress", err |-> "none"]

\* computeState with the classification of the entry tested before its error
\* (a fault of computeState).
computeStateDescFirst(srvIntent, current) ==
  IF srvIntent = NoIntent THEN [stat |-> "NotStarted", err |-> "none"]
  ELSE IF ~ IDFilterDeployment(srvIntent) THEN [stat |-> "NotVersion", err |-> "none"]
  ELSE IF current = NoRez THEN [stat |-> "PendingRequest", err |-> "none"]
  ELSE IF current.desc = "stable" THEN [stat |-> "Complete", err |-> "none"]
  ELSE IF current.desc = "coming" THEN [stat |-> "TasksStarting", err |-> "none"]
  ELSE IF current.err # "none"
    THEN IF IsTransientResolveError(current.err)
           THEN [stat |-> "ErredRez", err |-> current.err]
           ELSE [stat |-> "Failed", err |-> current.err]
  ELSE [stat |-> "InProgress", err |-> "none"]

\* computeState with the tests of StableDiff and ComingDiff exchanged (a fault
\* of computeState).
computeStateComingFirst(srvIntent, current) ==
  IF srvIntent = NoIntent THEN [stat |-> "NotStarted", err |-> "none"]
  ELSE IF ~ IDFilterDeployment(srvIntent) THEN [stat |-> "NotVersion", err |-> "none"]
  ELSE IF current = NoRez THEN [stat |-> "PendingRequest", err |-> "none"]
  ELSE IF current.err # "none"
    THEN IF IsTransientResolveError(current.err)
           THEN [stat |-> "ErredRez", err |-> current.err]
           ELSE [stat |-> "Failed", err |-> current.err]
  ELSE IF current.desc = "coming" THEN [stat |-> "Complete", err |-> "none"]
  ELSE IF current.desc = "stable" THEN [stat |-> "TasksStarting", err |-> "none"]
  ELSE [stat |-> "InProgress", err |-> "none"]

\* computeState: the state and the error it returns ("none" for nil).
computeState(srvIntent, current) ==
  IF srvIntent = NoIntent THEN [stat |-> "NotStarted", err |-> "none"]
  ELSE IF ~ IDFilterDeployment(srvIntent) THEN [stat |-> "NotVersion", err |-> "none"]
  ELSE IF current = NoRez THEN [stat |-> "PendingRequest", err |-> "none"]
  ELSE IF current.err # "none"
    THEN IF IsTransientResolveError(current.err)
           THEN [stat |-> "ErredRez", err |-> current.err]
           ELSE [stat |-> "Failed", err |-> current.err]
  ELSE IF current.desc = "stable" THEN [stat |-> "Complete", err |-> "none"]
  ELSE IF current.desc = "coming" THEN [stat |-> "TasksStarting", err |-> "none"]
  ELSE [stat |-> "InProgress", err |-> "none"]

\* The number of consecutive transport errors pollOnce puts up with.
HTTPErrorLimit == 10

\* The record of one computeState call: what it was given and what it returned.
Computed(f) ==
  LET r == computeState(f.intent, f.current)
  IN  [intent |-> f.intent, current |-> f.current, stat |-> r.stat, err |-> r.err]

\* The backwards-compatibility step of pollOnce: a status without intended
\* deployments takes the top-level list of the reply.
WithIntended(rstat, deployments) ==
  IF rstat.present /\ Len(rstat.intended) = 0
    THEN [rstat EXCEPT !.intended = deployments]
    ELSE rstat

\* pollOnce giving up at the limit instead of beyond it (a fault of pollOnce).
pollOnceAtLimit(count, ok, data) ==
  LET ip == Computed(stateFeatures(WithIntended(data.inProgress, data.deployments)))
      cp == Computed(stateFeatures(WithIntended(data.completed, data.deployments)))
  IN  IF ~ ok
        THEN IF count + 1 >= HTTPErrorLimit
               THEN [count |-> count + 1, stat |-> "HTTPFailed", err |-> "http",
                     calls |-> << >>]
               ELSE [count |-> count + 1, stat |-> "ErredHTTP", err |-> "http",
                     calls |-> << >>]
      ELSE IF ip.stat \in {"NotStarted", "NotVersion", "PendingRequest"}
        THEN [count |-> 0, stat |-> cp.stat, err |-> cp.err, calls |-> <<ip, cp>>]
      ELSE [count |-> 0, stat |-> ip.stat, err |-> ip.err, calls |-> <<ip>>]

\* pollOnce that leaves the counter alone after a successful Retrieve (a fault
\* of pollOnce).
pollOnceNoReset(count, ok, data) ==
  LET ip == Computed(stateFeatures(WithIntended(data.inProgress, data.deployments)))
      cp == Computed(stateFeatures(WithIntended(data.completed, data.deployments)))
  IN  IF ~ ok
        THEN IF count + 1 > HTTPErrorLimit
               THEN [count |-> count + 1, stat |-> "HTTPFailed", err |-> "http",
                     calls |-> << >>]
               ELSE [count |-> count + 1, stat |-> "ErredHTTP", err |-> "http",
                     calls |-> << >>]
      ELSE IF ip.stat \in {"NotStarted", "NotVersion", "PendingRequest"}
        THEN [count |-> count, stat |-> cp.stat, err |-> cp.err, calls |-> <<ip, cp>>]
      ELSE [count |-> count, stat |-> ip.stat, err |-> ip.err, calls |-> <<ip>>]

\* pollOnce that keeps PendingRequest of the in-progress resolution instead
\* of turning to the completed one (a fault of pollOnce).
pollOnceKeepsPending(count, ok, data) ==
  LET ip == Computed(stateFeatures(WithIntended(data.inProgress, data.deployments)))
      cp == Computed(stateFeatures(WithIntended(data.completed, data.deployments)))
  IN  IF ~ ok
        THEN IF count + 1 > HTTPErrorLimit
               THEN [count |-> count + 1, stat |-> "HTTPFailed", err |-> "http",
                     calls |-> << >>]
               ELSE [count |-> count + 1, stat |-> "ErredHTTP", err |-> "http",
                     calls |-> << >>]
      ELSE IF ip.stat \in {"NotStarted", "NotVersion"}
        THEN [count |-> 0, stat |-> cp.stat, err |-> cp.err, calls |-> <<ip, cp>>]
      ELSE [count |-> 0, stat |-> ip.stat, err |-> ip.err, calls |-> <<ip>>]

\* pollOnce: the error counter after the call, the result, and the
\* computeState calls it made.  ok tells whether Retrieve succeeded.
pollOnce(count, ok, data) ==
  LET ip == Computed(stateFeatures(WithIntended(data.inProgress, data.deployments)))
      cp == Computed(stateFeatures(WithIntended(data.completed, data.deployments)))
  IN  IF ~ ok
        THEN IF count + 1 > HTTPErrorLimit
               THEN [count |-> count + 1, stat |-> "HTTPFailed", err |-> "http",
                     calls |-> << >>]
               ELSE [count |-> count + 1, stat |-> "ErredHTTP", err |-> "http",
                     calls |-> << >>]
      ELSE IF ip.stat \in {"NotStarted", "NotVersion", "PendingRequest"}
        THEN [count |-> 0, stat |-> cp.stat, err |-> cp.err, calls |-> <<ip, cp>>]
      ELSE [count |-> 0, stat |-> ip.stat, err |-> ip.err, calls |-> <<ip>>]

\* finished: the states at or above ResolveTERMINALS.
TerminalStates == {"Complete", "Failed", "HTTPFailed"}

\* The status reports the cluster may give.
AppNew == [loc |-> "app", tag |-> "new"]

AppOld == [loc |-> "app", tag |-> "old"]

OtherNew == [loc |-> "other", tag |-> "new"]

Rez(m, d, e) == [mid |-> m, desc |-> d, err |-> e]

AppRezDomain ==
  { Rez("app", d, e) : d \in {"stable", "coming", "updated"},
                       e \in {"none", "transient", "permanent"} }

LogDomain ==
  {<< >>} \cup { <<r>> : r \in AppRezDomain } \cup
  { << Rez("other", "stable", "none"), Rez("app", "coming", "none") >>,
    << Rez("app", "updated", "none"), Rez("app", "stable", "none") >> }

IntendedDomain ==
  { << >>, <<AppNew>>, <<AppOld>>, <<OtherNew>>, <<AppNew, AppOld>>, <<OtherNew, AppNew>> }

StatusDomain ==
  {NoStatus} \cup
  { [present |-> TRUE, intended |-> i, log |-> l]
      : i \in IntendedDomain,
        l \in { << >>, << Rez("app", "stable", "none") >>,
                << Rez("app", "stable", "permanent") >> } } \cup
  { [present |-> TRUE, intended |-> <<AppNew>>, log |-> l] : l \in LogDomain }

StatusDataDomain ==
  { [inProgress |-> ip, completed |-> cp, deployments |-> d]
      : ip \in StatusDomain, cp \in StatusDomain, d \in { << >>, <<AppNew>> } }

NoData == [inProgress |-> NoStatus, completed |-> NoStatus, deployments |-> << >>]

\* The replies followed through runs of transport failures: nothing resolved
\* yet, the target coming up, the target stable.
TransportReplies ==
  { NoData,
    [inProgress |-> [present |-> TRUE, intended |-> <<AppNew>>,
                     log |-> << Rez("app", "coming", "none") >>],
     completed |-> NoStatus, deployments |-> << >>],
    [inProgress |-> NoStatus,
     completed |-> [present |-> TRUE, intended |-> <<AppNew>>,
                    log |-> << Rez("app", "stable", "none") >>],
     deployments |-> << >>] }

VARIABLES
  inputs,   \* per input channel: "open", or "nil" once seen closed
  collect,  \* the map ManifestID -> deploymentBundle of concentrate
  pc,       \* where concentrate is: "loop", "flush", "panic", "done", "crashed"
  outbox,   \* the sends concentrate is blocked on, in order
  sent,     \* history: the values consumers have received, in order
  closed,   \* per output channel: how many times it was closed
  recv,     \* history: the bag of events received
  bundle,   \* a deploymentBundle driven directly through its methods
  call,     \* history: the last method call on bundle and what it returned
  httpErrorCount, \* sdp.httpErrorCount
  result,   \* the pollResultSDP of the last pollOnce: its stat and err
  computed, \* history: the computeState calls of the last pollOnce
  failRun,  \* history: the length of the current run of failed Retrieves
  stable,   \* the status endpoint has settled: from now on it answers, with
            \* the target intended and a stable, error-free log entry
  reply,    \* the statusData the last pollOnce of a poller polled on its own
            \* was answered with
  prevRun,  \* history: the length of the run the last successful Retrieve ended
  ctx,      \* the context given to Wait: "live" or "done"
  wpc,      \* Wait: "parked" in its select, woken by "ctx" or "done", "returned"
  wret,     \* what Wait returned
  wdone,    \* the done channel of Wait is closed
  rstate,   \* the variables resolveState and err of Wait
  gpc,      \* the goroutine of Wait running waitForever
  pret,     \* what waitForever returns
  status,   \* sdp.status
  apc,      \* the goroutine of poll that receives the results
  spc,      \* the goroutine running start
  msg,      \* the pollResultSDP start is sending or about to send
  pdone,    \* the done channel of poll is closed
  tick,     \* ticker.C holds a tick
  late,     \* history: a status request was issued after a terminal result
  rchan,    \* per input channel of Rectify: "open" or "closed"
  rpc,      \* per worker of Rectify: where it is
  rhist,    \* per worker: the events it received, in order, each with the
            \* calls made for it so far and how many of them failed
  wg,       \* the WaitGroup counter of Rectify
  rdone,    \* how many times the done channel of Rectify was closed
  rretained, \* how many values the differ has put on dcs.Retained
  cap,      \* the capacity the output channels of the concentrator were made with
  buf,      \* per output channel: the values sent and not yet received
  cpc,      \* where collect is: "new" before the channels exist, "errs0" and
            \* "errs1" at its two selects, a channel name in the range over
            \* that channel, "returned"
  cds,      \* the concentratedDiffSet of collect: the values it has received
  cerr      \* the error collect returns

dcVars == <<inputs, collect, pc, outbox, sent, closed, recv>>

dbVars == <<bundle, call>>

sdpVars == <<httpErrorCount, result, computed, failRun, prevRun, stable, reply>>

waitVars ==
  <<ctx, wpc, wret, wdone, rstate, gpc, pret, status, apc, spc, msg, pdone, tick, late>>

rectVars == <<rchan, rpc, rhist, wg, rdone, rretained>>

colVars == <<cap, buf, cpc, cds, cerr>>

vars == <<dcVars, dbVars, sdpVars, waitVars, rectVars, colVars>>

\* A send annotated with the bundle key and the phase it was made in.
Tag(sends, key, phase) ==
  [i \in 1..Len(sends) |->
     [ch |-> sends[i].ch, prior |-> sends[i].prior, post |-> sends[i].post,
      err |-> sends[i].err, key |-> key, phase |-> phase]]

InitDC ==
  /\ inputs = [ch \in InChans |-> "open"]
  /\ collect = << >>
  /\ pc = "loop"
  /\ outbox = << >>
  /\ sent = << >>
  /\ closed = [ch \in OutChans |-> 0]
  /\ recv = EmptyBag

\* One case of the select receiving a value: addPair on it.
Receive(ev) ==
  /\ pc = "loop"
  /\ outbox = << >>
  /\ inputs[ev.ch] = "open"
  /\ BagCardinality(recv) < MaxEvents
  /\ LET r == addPair(collect, KeyOf(ev), ev)
     IN  /\ collect' = r.coll
         /\ outbox' = Tag(r.sends, KeyOf(ev), "loop")
         /\ pc' = IF r.panic THEN "panic" ELSE "loop"
  /\ recv' = recv (+) SetToBag({ev})
  /\ UNCHANGED <<inputs, sent, closed, dbVars, sdpVars, waitVars, rectVars, colVars>>

\* One case of the select seeing its channel closed: the channel becomes nil.
InputClosed(ch) ==
  /\ pc = "loop"
  /\ outbox = << >>
  /\ inputs[ch] = "open"
  /\ inputs' = [inputs EXCEPT ![ch] = "nil"]
  /\ UNCHANGED <<collect, pc, outbox, sent, closed, recv, dbVars, sdpVars, waitVars, rectVars,
            colVars>>

\* The loop left as soon as one channel is nil (a fault of the loop test).
LeaveLoopAny ==
  /\ pc = "loop"
  /\ outbox = << >>
  /\ \E ch \in InChans : inputs[ch] = "nil"
  /\ pc' = "flush"
  /\ UNCHANGED <<inputs, collect, outbox, sent, closed, recv, dbVars, sdpVars, waitVars, rectVars,
            colVars>>

\* The test at the head of the loop: all four channels nil, break.
LeaveLoop ==
  /\ pc = "loop"
  /\ outbox = << >>
  /\ \A ch \in InChans : inputs[ch] = "nil"
  /\ pc' = "flush"
  /\ UNCHANGED <<inputs, collect, outbox, sent, closed, recv, dbVars, sdpVars, waitVars, rectVars,
            colVars>>

\* The final range without its test of consumed (a fault of the flush).
FlushConsumedToo(mid) ==
  /\ pc = "flush"
  /\ outbox = << >>
  /\ mid \in DOMAIN collect
  /\ Len(sent) < MaxEvents + 2
  /\ LET r == resolve(collect[mid])
     IN  /\ collect' = Put(collect, mid, r.db)
         /\ outbox' = Tag(r.sends, mid, "flush")
         /\ pc' = IF r.panic THEN "panic" ELSE "flush"
  /\ UNCHANGED <<inputs, sent, closed, recv, dbVars, sdpVars, waitVars, rectVars, colVars>>

\* One iteration of the final range over collect, in map order (any order).
Flush(mid) ==
  /\ pc = "flush"
  /\ outbox = << >>
  /\ mid \in DOMAIN collect
  /\ ~ collect[mid].consumed
  /\ LET r == resolve(collect[mid])
     IN  /\ collect' = Put(collect, mid, r.db)
         /\ outbox' = Tag(r.sends, mid, "flush")
         /\ pc' = IF r.panic THEN "panic" ELSE "flush"
  /\ UNCHANGED <<inputs, sent, closed, recv, dbVars, sdpVars, waitVars, rectVars, colVars>>

\* The deferred function: runs when the range is over, or while a panic
\* unwinds concentrate.
CloseOutputs ==
  /\ outbox = << >>
  /\ \/ /\ pc = "flush"
        /\ \A mid \in DOMAIN collect : collect[mid].consumed
        /\ pc' = "done"
     \/ /\ pc = "panic"
        /\ pc' = "crashed"
  /\ closed' = [ch \in OutChans |-> closed[ch] + 1]
  /\ UNCHANGED <<inputs, collect, outbox, sent, recv, dbVars, sdpVars, waitVars, rectVars,
            colVars>>

\* A consumer receives the value concentrate is sending.
Consume ==
  /\ outbox # << >>
  /\ sent' = Append(sent, [m |-> Head(outbox), closedAt |-> closed[Head(outbox).ch]])
  /\ outbox' = Tail(outbox)
  /\ UNCHANGED <<inputs, collect, pc, closed, recv, dbVars, sdpVars, waitVars, rectVars,
            colVars>>

Next ==
  \/ \E ev \in Events : Receive(ev)
  \/ \E ch \in InChans : InputClosed(ch)
  \/ LeaveLoop
  \/ \E mid \in ManifestIDs : Flush(mid)
  \/ CloseOutputs
  \/ Consume

\* Receive within the bound of the runs with the unconfigured cluster.
ReceiveWide(ev) ==
  /\ BagCardinality(recv) < MaxWideEvents
  /\ Receive(ev)

NextWide ==
  \/ \E ev \in WideEvents : ReceiveWide(ev)
  \/ \E ch \in InChans : InputClosed(ch)
  \/ LeaveLoop
  \/ \E mid \in ManifestIDs : Flush(mid)
  \/ CloseOutputs
  \/ Consume

(***************************************************************************)
(* concentrate with DiffConcentrator.collect as the consumer               *)
(***************************************************************************)
\* The channels collect ranges over, in its order.
CollectOrder == << "Deleted", "Created", "Modified", "Retained" >>

\* What collect does after the range over ch.
AfterRange(ch) ==
  CASE ch = "Deleted" -> "Created"
    [] ch = "Created" -> "Modified"
    [] ch = "Modified" -> "Retained"
    [] ch = "Retained" -> "errs1"

InitCollect ==
  /\ cap = 0
  /\ buf = [ch \in OutChans |-> << >>]
  /\ cpc = "new"
  /\ cds = {}
  /\ cerr = "-"

\* The output channels are made, with some capacity, and collect is called.
Construct(c) ==
  /\ cpc = "new"
  /\ cap' = c
  /\ cpc' = "errs0"
  /\ UNCHANGED <<buf, cds, cerr, dcVars, dbVars, sdpVars, waitVars, rectVars>>

\* Receive within the bound of the runs with collect.
ReceiveCollect(ev) ==
  /\ BagCardinality(recv) < MaxCollectEvents
  /\ Receive(ev)

\* The send concentrate is in completes: the channel has room.
SendBuffered ==
  /\ cpc # "new"
  /\ outbox # << >>
  /\ LET h == Head(outbox)
     IN  /\ Len(buf[h.ch]) < cap
         /\ buf' = [buf EXCEPT ![h.ch] = Append(@, h)]
         /\ sent' = Append(sent, [m |-> h, closedAt |-> closed[h.ch]])
  /\ outbox' = Tail(outbox)
  /\ UNCHANGED <<inputs, collect, pc, closed, recv, cap, cpc, cds, cerr,
                 dbVars, sdpVars, waitVars, rectVars>>

\* collect is in the range over ch: it receives a value, which comes out of
\* the buffer or, on a channel without one, straight from the send
\* concentrate is blocked in; or it sees the channel closed and drained and
\* goes on.
CollectRange(ch) ==
  /\ cpc = ch
  /\ ch \in DiffChans
  /\ IF buf[ch] # << >>
       THEN /\ cds' = cds \cup {Head(buf[ch])}
            /\ buf' = [buf EXCEPT ![ch] = Tail(@)]
            /\ UNCHANGED <<cpc, outbox, sent>>
     ELSE IF cap = 0 /\ outbox # << >> /\ Head(outbox).ch = ch
       THEN /\ cds' = cds \cup {Head(outbox)}
            /\ sent' = Append(sent, [m |-> Head(outbox), closedAt |-> closed[ch]])
            /\ outbox' = Tail(outbox)
            /\ UNCHANGED <<cpc, buf>>
     ELSE /\ closed[ch] > 0
          /\ cpc' = AfterRange(ch)
          /\ UNCHANGED <<cds, buf, outbox, sent>>
  /\ UNCHANGED <<inputs, collect, pc, closed, recv, cap, cerr,
                 dbVars, sdpVars, waitVars, rectVars>>

\* One of the two selects of collect: an error that is there is received and
\* returned, a closed Errors yields nil and collect returns, otherwise the
\* default case is taken.
CollectSelect ==
  /\ cpc \in {"errs0", "errs1"}
  /\ IF buf["Errors"] # << >>
       THEN /\ cerr' = Head(buf["Errors"]).err
            /\ buf' = [buf EXCEPT !["Errors"] = Tail(@)]
            /\ cpc' = "returned"
            /\ UNCHANGED <<outbox, sent>>
     ELSE IF cap = 0 /\ outbox # << >> /\ Head(outbox).ch = "Errors"
       THEN /\ cerr' = Head(outbox).err
            /\ sent' = Append(sent, [m |-> Head(outbox), closedAt |-> closed["Errors"]])
            /\ outbox' = Tail(outbox)
            /\ cpc' = "returned"
            /\ UNCHANGED buf
     ELSE IF closed["Errors"] > 0
       THEN /\ cerr' = "nil"
            /\ cpc' = "returned"
            /\ UNCHANGED <<buf, outbox, sent>>
     ELSE /\ cpc' = IF cpc = "errs0" THEN CollectOrder[1] ELSE "returned"
          /\ cerr' = IF cpc = "errs0" THEN cerr ELSE "nil"
          /\ UNCHANGED <<buf, outbox, sent>>
  /\ UNCHANGED <<inputs, collect, pc, closed, recv, cap, cds,
                 dbVars, sdpVars, waitVars, rectVars>>

NextCollect ==
  \/ \E c \in 0..MaxCap : Construct(c)
  \/ \E ev \in Events : ReceiveCollect(ev)
  \/ \E ch \in InChans : InputClosed(ch)
  \/ LeaveLoop
  \/ \E mid \in ManifestIDs : Flush(mid)
  \/ CloseOutputs
  \/ SendBuffered
  \/ \E ch \in DiffChans : CollectRange(ch)
  \/ CollectSelect

(***************************************************************************)
(* A deploymentBundle driven through add and manifestPair in any order     *)
(***************************************************************************)
\* The pairs add may be given: either side may be nil.
PairDomain ==
  { [prior |-> p, post |-> q] : p \in DepDomain \cup {NoDep}, q \in DepDomain \cup {NoDep} }

NoPair == [prior |-> NoDep, post |-> NoDep]

NoMP == [name |-> "-", prior |-> NoMan, post |-> NoMan]

InitDB ==
  /\ bundle = newDepBundle
  /\ call = [op |-> "none", pair |-> NoPair, pre |-> newDepBundle, err |-> "", mp |-> NoMP]

BundleAdd(pair) ==
  /\ call.err # "panic"
  /\ LET a == add(bundle, pair)
     IN  /\ bundle' = a.db
         /\ call' = [op |-> "add", pair |-> pair, pre |-> bundle, err |-> a.err,
                     mp |-> NoMP]
  /\ UNCHANGED <<dcVars, sdpVars, waitVars, rectVars, colVars>>

BundleManifestPair ==
  /\ call.err # "panic"
  /\ LET r == manifestPair(bundle)
     IN  /\ bundle' = r.db
         /\ call' = [op |-> "manifestPair", pair |-> NoPair, pre |-> bundle,
                     err |-> r.err, mp |-> r.mp]
  /\ UNCHANGED <<dcVars, sdpVars, waitVars, rectVars, colVars>>

NextBundle ==
  \/ \E pair \in PairDomain : BundleAdd(pair)
  \/ BundleManifestPair

(***************************************************************************)
(* A SingleDeploymentPoller polled until a terminal state is computed      *)
(***************************************************************************)
InitSDP ==
  /\ httpErrorCount = 0
  /\ result = [stat |-> "NotPolled", err |-> "none"]
  /\ computed = << >>
  /\ failRun = 0
  /\ prevRun = 0
  /\ stable = FALSE
  /\ reply = NoData

\* One pollOnce whose Retrieve succeeds with the reply data, or fails.
PollOnce(ok, data) ==
  /\ result.stat \notin TerminalStates
  /\ LET r == pollOnce(httpErrorCount, ok, data)
     IN  /\ httpErrorCount' = r.count
         /\ result' = [stat |-> r.stat, err |-> r.err]
         /\ computed' = r.calls
  /\ reply' = data
  /\ UNCHANGED <<failRun, prevRun, stable, dcVars, dbVars, waitVars, rectVars, colVars>>

NextPoller ==
  \/ \E data \in StatusDataDomain : PollOnce(TRUE, data)
  \/ PollOnce(FALSE, NoData)

(***************************************************************************)
(* A SingleDeploymentPoller polled through runs of transport failures      *)
(***************************************************************************)
\* One pollOnce, whatever the last result was, with the outcome of Retrieve
\* counted on the side.
PollTransport(ok, data) ==
  /\ ok \/ httpErrorCount < HTTPErrorLimit + MaxGivenUp
  /\ LET r == pollOnce(httpErrorCount, ok, data)
     IN  /\ httpErrorCount' = r.count
         /\ result' = [stat |-> r.stat, err |-> r.err]
         /\ computed' = r.calls
  /\ failRun' = IF ok THEN 0 ELSE failRun + 1
  /\ prevRun' = IF ok THEN failRun ELSE prevRun
  /\ UNCHANGED <<stable, reply, dcVars, dbVars, waitVars, rectVars, colVars>>

NextTransport ==
  \/ \E data \in TransportReplies : PollTransport(TRUE, data)
  \/ PollTransport(FALSE, NoData)

(***************************************************************************)
(* SingleDeploymentPoller.Wait and the goroutines it starts                *)
(***************************************************************************)
\* A pollResultSDP, a pair of returned values: the state and the error.
Res(st, e) == [stat |-> st, err |-> e]

NoRes == Res("-", "-")

\* The replies the status endpoint gives while Wait runs.
WaitReplies ==
  TransportReplies \cup
  { [inProgress |-> [present |-> TRUE, intended |-> <<AppNew>>,
                     log |-> << Rez("app", "coming", e) >>],
     completed |-> NoStatus, deployments |-> << >>] : e \in {"transient", "permanent"} }

\* finished that also holds for ErredRez (a fault of finished).
finishedOnErredRez(st) == st \in TerminalStates \cup {"ErredRez"}

\* finished.
finished(st) == st \in TerminalStates

\* Wait has started its goroutine and blocks in its select; resolveState and
\* err hold their zero values.
InitWait ==
  /\ ctx = "live"
  /\ wpc = "parked"
  /\ wret = NoRes
  /\ wdone = FALSE
  /\ rstate = Res("NotPolled", "none")
  /\ gpc = "servers"
  /\ pret = NoRes
  /\ status = "NotPolled"
  /\ apc = "idle"
  /\ spc = "idle"
  /\ msg = NoRes
  /\ pdone = FALSE
  /\ tick = FALSE
  /\ late = FALSE

\* The context is cancelled or its deadline passes: ctx.Done() is closed, and
\* a Wait blocked in its select is woken with that case.
Cancel ==
  /\ ctx = "live"
  /\ ctx' = "done"
  /\ wpc' = IF wpc = "parked" THEN "ctx" ELSE wpc
  /\ UNCHANGED <<wret, wdone, rstate, gpc, pret, status, apc, spc, msg, pdone, tick,
                 late, dcVars, dbVars, sdpVars, rectVars, colVars>>

\* Wait that has no case for ctx.Done() (a fault of Wait).
WaitReturnDoneOnly ==
  /\ wpc = "done"
  /\ wret' = rstate
  /\ wpc' = "returned"
  /\ UNCHANGED <<ctx, wdone, rstate, gpc, pret, status, apc, spc, msg, pdone, tick,
                 late, dcVars, dbVars, sdpVars, rectVars, colVars>>

\* Wait returns from the case of its select it was woken with.
WaitReturn ==
  /\ wpc \in {"ctx", "done"}
  /\ wret' = IF wpc = "done" THEN rstate ELSE Res(rstate.stat, "cancelled")
  /\ wpc' = "returned"
  /\ UNCHANGED <<ctx, wdone, rstate, gpc, pret, status, apc, spc, msg, pdone, tick,
                 late, dcVars, dbVars, sdpVars, rectVars, colVars>>

\* waitForever: the retrieval of ./servers.
RetrieveServers(ok) ==
  /\ gpc = "servers"
  /\ gpc' = IF ok THEN "gdm" ELSE "assign"
  /\ pret' = IF ok THEN pret ELSE Res("Failed", "http")
  /\ UNCHANGED <<ctx, wpc, wret, wdone, rstate, status, apc, spc, msg, pdone, tick,
                 late, dcVars, dbVars, sdpVars, rectVars, colVars>>

\* waitForever: the retrieval of ./gdm, and on success the start of poll with
\* its two goroutines.
RetrieveGDM(ok) ==
  /\ gpc = "gdm"
  /\ gpc' = IF ok THEN "poll" ELSE "assign"
  /\ pret' = IF ok THEN pret ELSE Res("Failed", "http")
  /\ apc' = IF ok THEN "recv" ELSE apc
  /\ spc' = IF ok THEN "send0" ELSE spc
  /\ msg' = IF ok THEN Res("NotPolled", "none") ELSE msg
  /\ UNCHANGED <<ctx, wpc, wret, wdone, rstate, status, pdone, tick, late,
                 dcVars, dbVars, sdpVars, rectVars, colVars>>

\* A send of start on sdp.results meets the receive of the goroutine of poll,
\* which calls updateStatus.  After its second send start creates the ticker.
Deliver ==
  /\ spc \in {"send0", "send1", "send"}
  /\ apc = "recv"
  /\ status' = msg.stat
  /\ apc' = "check"
  /\ spc' = IF spc = "send0" THEN "poll1" ELSE "select"
  /\ UNCHANGED <<ctx, wpc, wret, wdone, rstate, gpc, pret, msg, pdone, tick, late,
                 dcVars, dbVars, sdpVars, rectVars, colVars>>

\* The goroutine of poll tests finished: it closes done and returns, or
\* receives again.
CheckFinished ==
  /\ apc = "check"
  /\ apc' = IF finished(status) THEN "exit" ELSE "recv"
  /\ pdone' = finished(status)
  /\ UNCHANGED <<ctx, wpc, wret, wdone, rstate, gpc, pret, status, spc, msg, tick,
                 late, dcVars, dbVars, sdpVars, rectVars, colVars>>

\* start calls pollOnce: one status request.
StartPollOnce(ok, data) ==
  /\ spc \in {"poll1", "poll"}
  /\ LET r == pollOnce(httpErrorCount, ok, data)
     IN  /\ httpErrorCount' = r.count
         /\ msg' = Res(r.stat, r.err)
  /\ spc' = IF spc = "poll1" THEN "send1" ELSE "send"
  /\ late' = (late \/ finished(status))
  /\ UNCHANGED <<ctx, wpc, wret, wdone, rstate, gpc, pret, status, apc, pdone, tick,
                 result, computed, failRun, prevRun, stable, reply, dcVars, dbVars, rectVars,
                 colVars>>

\* The ticker puts a tick in its channel, which holds one.
Tick ==
  /\ spc \in {"select", "poll", "send"}
  /\ ~ tick
  /\ tick' = TRUE
  /\ UNCHANGED <<ctx, wpc, wret, wdone, rstate, gpc, pret, status, apc, spc, msg,
                 pdone, late, dcVars, dbVars, sdpVars, rectVars, colVars>>

\* The select of start takes the tick.
SelectTick ==
  /\ spc = "select"
  /\ tick
  /\ tick' = FALSE
  /\ spc' = "poll"
  /\ UNCHANGED <<ctx, wpc, wret, wdone, rstate, gpc, pret, status, apc, msg, pdone,
                 late, dcVars, dbVars, sdpVars, rectVars, colVars>>

\* The select of start sees done closed: start returns.
SelectDone ==
  /\ spc = "select"
  /\ pdone
  /\ spc' = "exit"
  /\ UNCHANGED <<ctx, wpc, wret, wdone, rstate, gpc, pret, status, apc, msg, pdone,
                 tick, late, dcVars, dbVars, sdpVars, rectVars, colVars>>

\* poll that returns sdp.status without waiting for done (a fault of poll).
PollReturnNoWait ==
  /\ gpc = "poll"
  /\ pret' = Res(status, "none")
  /\ gpc' = "assign"
  /\ UNCHANGED <<ctx, wpc, wret, wdone, rstate, status, apc, spc, msg, pdone, tick,
                 late, dcVars, dbVars, sdpVars, rectVars, colVars>>

\* poll is past <-done and returns sdp.status; waitForever returns it with a
\* nil error.
PollReturn ==
  /\ gpc = "poll"
  /\ pdone
  /\ pret' = Res(status, "none")
  /\ gpc' = "assign"
  /\ UNCHANGED <<ctx, wpc, wret, wdone, rstate, status, apc, spc, msg, pdone, tick,
                 late, dcVars, dbVars, sdpVars, rectVars, colVars>>

\* The goroutine of Wait assigns resolveState and err.
AssignResult ==
  /\ gpc = "assign"
  /\ rstate' = pret
  /\ gpc' = "close"
  /\ UNCHANGED <<ctx, wpc, wret, wdone, pret, status, apc, spc, msg, pdone, tick,
                 late, dcVars, dbVars, sdpVars, rectVars, colVars>>

\* The goroutine of Wait closes done; a Wait blocked in its select is woken
\* with that case.
CloseDone ==
  /\ gpc = "close"
  /\ wdone' = TRUE
  /\ gpc' = "exit"
  /\ wpc' = IF wpc = "parked" THEN "done" ELSE wpc
  /\ UNCHANGED <<ctx, wret, rstate, pret, status, apc, spc, msg, pdone, tick, late,
                 dcVars, dbVars, sdpVars, rectVars, colVars>>

NextWait ==
  \/ Cancel
  \/ WaitReturn
  \/ \E ok \in BOOLEAN : RetrieveServers(ok)
  \/ \E ok \in BOOLEAN : RetrieveGDM(ok)
  \/ Deliver
  \/ CheckFinished
  \/ \E data \in WaitReplies : StartPollOnce(TRUE, data)
  \/ StartPollOnce(FALSE, NoData)
  \/ Tick
  \/ SelectTick
  \/ SelectDone
  \/ PollReturn
  \/ AssignResult
  \/ CloseDone

\* The replies of a status endpoint that has settled on the target: the
\* matching intent with a stable log entry without error, as the in-progress
\* or as the completed resolution.
StableReplies ==
  { [inProgress |-> [present |-> TRUE, intended |-> <<AppNew>>,
                     log |-> << Rez("app", "stable", "none") >>],
     completed |-> NoStatus, deployments |-> << >>],
    [inProgress |-> NoStatus,
     completed |-> [present |-> TRUE, intended |-> <<AppNew>>,
                    log |-> << Rez("app", "stable", "none") >>],
     deployments |-> << >>] }

\* The cluster settles while the poller is polling and has not computed a
\* terminal state.
Stabilise ==
  /\ ~ stable
  /\ gpc = "poll"
  /\ ~ finished(status)
  /\ ~ finished(msg.stat)
  /\ spc \notin {"poll1", "poll"}
  /\ stable' = TRUE
  /\ UNCHANGED <<httpErrorCount, result, computed, failRun, prevRun, reply,
                 dcVars, dbVars, waitVars, rectVars, colVars>>

\* pollOnce against a cluster that may have settled.
StartPollOnceLive(ok, data) ==
  /\ stable => (ok /\ data \in StableReplies)
  /\ StartPollOnce(ok, data)

NextPollLive ==
  \/ Cancel
  \/ WaitReturn
  \/ \E ok \in BOOLEAN : RetrieveServers(ok)
  \/ \E ok \in BOOLEAN : RetrieveGDM(ok)
  \/ Deliver
  \/ CheckFinished
  \/ \E data \in WaitReplies \cup StableReplies : StartPollOnceLive(TRUE, data)
  \/ StartPollOnceLive(FALSE, NoData)
  \/ Stabilise
  \/ Tick
  \/ SelectTick
  \/ SelectDone
  \/ PollReturn
  \/ AssignResult
  \/ CloseDone

(***************************************************************************)
(* Rectify and its workers (sous/rectifier.go)                             *)
(***************************************************************************)
\* A Deployment as the rectifier reads it: Cluster, RequestId, SourceVersion
\* (repository and version), NumInstances, Resources.
RDep(c, q, v, n, r) ==
  [cluster |-> c, req |-> q, repo |-> "app", ver |-> v, num |-> n, res |-> r]

\* An absent side of an event.
NoRDep == [cluster |-> "-", req |-> "-", repo |-> "-", ver |-> 0, num |-> 0, res |-> "-"]

\* Deployment.CanonicalName().String(): the name of the repository.
CanonicalName(d) == d.repo

\* SourceVersion.Equal and Resources.Equal: structural equality.
SourceVersionEqual(a, b) == a.repo = b.repo /\ a.ver = b.ver

ResourcesEqual(a, b) == a = b

\* RectificationClient.ImageName: a name made of the SourceVersion.
ImageName(d) == <<d.repo, d.ver>>

computeRequestId(d) == IF d.req # "" THEN d.req ELSE CanonicalName(d)

\* rectifier.changesReq that holds for every pair (a fault of changesReq).
changesReqAlways(pair) == TRUE

changesReq(pair) == pair.prior.num # pair.post.num

\* changesDep: the second operand compares the Resources of Prior with
\* themselves.
changesDep(pair) ==
  ~ (SourceVersionEqual(pair.prior, pair.post)
       /\ ResourcesEqual(pair.prior.res, pair.prior.res))

\* A call on the RectificationClient.  Arguments a method does not have are
\* -1, "-" or the empty tuple.
Call(op, c, q, n, img, r, m) ==
  [op |-> op, cluster |-> c, req |-> q, count |-> n, image |-> img, res |-> r, msg |-> m]

PostRequestCall(c, q, n) == Call("PostRequest", c, q, n, << >>, "-", "-")

DeployCall(c, q, img, r) == Call("Deploy", c, q, -1, img, r, "-")

ScaleCall(c, q, n, m) == Call("Scale", c, q, n, << >>, "-", m)

\* The body of the loop of rectifyCreates with its two calls exchanged (a
\* fault of rectifyCreates).
createCallsDeployFirst(d) ==
  << DeployCall(d.cluster, computeRequestId(d), ImageName(d), d.res),
     PostRequestCall(d.cluster, computeRequestId(d), d.num) >>

\* The body of the loop of rectifyCreates: the calls it makes for d, in order.
createCalls(d) ==
  << PostRequestCall(d.cluster, computeRequestId(d), d.num),
     DeployCall(d.cluster, computeRequestId(d), ImageName(d), d.res) >>

\* The body of the loop of rectifyDeletes scaling to the deployment's own
\* instance count (a fault of rectifyDeletes).
deleteCallsKeepCount(d) ==
  << ScaleCall(d.cluster, computeRequestId(d), d.num, "scaling deleted manifest to zero") >>

\* The body of the loop of rectifyDeletes.
deleteCalls(d) ==
  << ScaleCall(d.cluster, computeRequestId(d), 0, "scaling deleted manifest to zero") >>

\* The body of the loop of rectifyModifys with its two tests exchanged (a
\* fault of rectifyModifys).
modifyCallsDeployFirst(pair) ==
  (IF changesDep(pair)
     THEN << DeployCall(pair.post.cluster, computeRequestId(pair.prior),
                        ImageName(pair.post), pair.post.res) >>
     ELSE << >>)
  \o
  (IF changesReq(pair)
     THEN << ScaleCall(pair.post.cluster, computeRequestId(pair.post), pair.post.num,
                       "rectified scaling") >>
     ELSE << >>)

\* The body of the loop of rectifyModifys.
modifyCalls(pair) ==
  (IF changesReq(pair)
     THEN << ScaleCall(pair.post.cluster, computeRequestId(pair.post), pair.post.num,
                       "rectified scaling") >>
     ELSE << >>)
  \o
  (IF changesDep(pair)
     THEN << DeployCall(pair.post.cluster, computeRequestId(pair.prior),
                        ImageName(pair.post), pair.post.res) >>
     ELSE << >>)

\* The three workers and the goroutine that waits for them.
Workers == {"rectifyCreates", "rectifyDeletes", "rectifyModifys"}

RectChans == {"Created", "Deleted", "Modified"}

WorkerOf(ch) ==
  CASE ch = "Created" -> "rectifyCreates"
    [] ch = "Deleted" -> "rectifyDeletes"
    [] ch = "Modified" -> "rectifyModifys"

ChanOf(w) == CHOOSE ch \in RectChans : WorkerOf(ch) = w

\* The calls a worker makes for an event.
PlanOf(ev) ==
  CASE ev.ch = "Created" -> createCalls(ev.post)
    [] ev.ch = "Deleted" -> deleteCalls(ev.prior)
    [] ev.ch = "Modified" -> modifyCalls(ev)

\* The events the differ may send.
BaseDep == RDep("c1", "", 1, 1, "r1")

RectEvents ==
  { [ch |-> "Created", prior |-> NoRDep, post |-> d]
      : d \in { BaseDep, RDep("c2", "q1", 2, 2, "r2") } } \cup
  { [ch |-> "Deleted", prior |-> d, post |-> NoRDep]
      : d \in { BaseDep, RDep("c2", "q1", 1, 2, "r1") } } \cup
  { [ch |-> "Modified", prior |-> BaseDep, post |-> RDep("c1", "", v, n, r)]
      : v \in {1, 2}, n \in {1, 2}, r \in {"r1", "r2"} }

\* The number of events the workers have received.
Received(h) ==
  Len(h["rectifyCreates"]) + Len(h["rectifyDeletes"]) + Len(h["rectifyModifys"])

\* Rectify has started its four goroutines.
InitRect ==
  /\ rchan = [ch \in RectChans |-> "open"]
  /\ rpc = [w \in Workers \cup {"waiter"} |-> IF w = "waiter" THEN "wait" ELSE "recv"]
  /\ rhist = [w \in Workers |-> << >>]
  /\ wg = 3
  /\ rdone = 0
  /\ rretained = 0

\* The range of a worker receives an event from its channel.
RectReceive(ev) ==
  LET w == WorkerOf(ev.ch)
  IN  /\ rchan[ev.ch] = "open"
      /\ rpc[w] = "recv"
      /\ Received(rhist) + rretained < MaxRectEvents
      /\ rhist' = [rhist EXCEPT ![w] = Append(@, [ev |-> ev, calls |-> << >>, failed |-> 0])]
      /\ rpc' = [rpc EXCEPT ![w] = IF PlanOf(ev) = << >> THEN "recv" ELSE "busy"]
      /\ UNCHANGED <<rchan, wg, rdone, rretained, dcVars, dbVars, sdpVars, waitVars, colVars>>

\* What Rectify has sent on an error stream: it has none, it returns the done
\* channel alone, and the workers drop what the client calls return.
ErrorStream == << >>

\* A worker that returns from its loop at the first call that fails (a fault
\* of the workers).
RectCallStopOnError(w, ok) ==
  /\ rpc[w] = "busy"
  /\ LET n == Len(rhist[w])
         cur == rhist[w][n]
         plan == PlanOf(cur.ev)
         k == Len(cur.calls) + 1
     IN  /\ rhist' = [rhist EXCEPT ![w][n] =
                        [ev |-> cur.ev, calls |-> Append(cur.calls, plan[k]),
                         failed |-> cur.failed + (IF ok THEN 0 ELSE 1)]]
         /\ rpc' = [rpc EXCEPT ![w] = IF ~ ok THEN "done"
                                      ELSE IF k = Len(plan) THEN "recv" ELSE "busy"]
         /\ wg' = IF ok THEN wg ELSE wg - 1
  /\ UNCHANGED <<rchan, rdone, rretained, dcVars, dbVars, sdpVars, waitVars, colVars>>

\* A worker that repeats a call that failed until it succeeds (a fault of the
\* workers).
RectCallRetry(w, ok) ==
  /\ rpc[w] = "busy"
  /\ LET n == Len(rhist[w])
         cur == rhist[w][n]
         plan == PlanOf(cur.ev)
         k == Len(cur.calls) - cur.failed + 1
     IN  /\ rhist' = [rhist EXCEPT ![w][n] =
                        [ev |-> cur.ev, calls |-> Append(cur.calls, plan[k]),
                         failed |-> cur.failed + (IF ok THEN 0 ELSE 1)]]
         /\ rpc' = [rpc EXCEPT ![w] = IF ok /\ k = Len(plan) THEN "recv" ELSE "busy"]
  /\ UNCHANGED <<rchan, wg, rdone, rretained, dcVars, dbVars, sdpVars, waitVars, colVars>>

\* Workers whose client calls exclude each other: a call returns only while
\* no other worker is inside one (a fault of the workers).
RectCallOneAtATime(w, ok) ==
  /\ rpc[w] = "busy"
  /\ \A v \in Workers \ {w} : rpc[v] # "busy"
  /\ LET n == Len(rhist[w])
         cur == rhist[w][n]
         plan == PlanOf(cur.ev)
         k == Len(cur.calls) + 1
     IN  /\ rhist' = [rhist EXCEPT ![w][n] =
                        [ev |-> cur.ev, calls |-> Append(cur.calls, plan[k]),
                         failed |-> cur.failed + (IF ok THEN 0 ELSE 1)]]
         /\ rpc' = [rpc EXCEPT ![w] = IF k = Len(plan) THEN "recv" ELSE "busy"]
  /\ UNCHANGED <<rchan, wg, rdone, rretained, dcVars, dbVars, sdpVars, waitVars, colVars>>

\* A worker makes the next call for its event; the client answers nil (ok) or
\* an error, which the worker drops.
RectCall(w, ok) ==
  /\ rpc[w] = "busy"
  /\ LET n == Len(rhist[w])
         cur == rhist[w][n]
         plan == PlanOf(cur.ev)
         k == Len(cur.calls) + 1
     IN  /\ rhist' = [rhist EXCEPT ![w][n] =
                        [ev |-> cur.ev, calls |-> Append(cur.calls, plan[k]),
                         failed |-> cur.failed + (IF ok THEN 0 ELSE 1)]]
         /\ rpc' = [rpc EXCEPT ![w] = IF k = Len(plan) THEN "recv" ELSE "busy"]
  /\ UNCHANGED <<rchan, wg, rdone, rretained, dcVars, dbVars, sdpVars, waitVars, colVars>>

\* The differ puts a value on dcs.Retained.  Rectify starts no goroutine that
\* receives from that channel.
RectRetained ==
  /\ Received(rhist) + rretained < MaxRectEvents
  /\ rretained' = rretained + 1
  /\ UNCHANGED <<rchan, rpc, rhist, wg, rdone, dcVars, dbVars, sdpVars, waitVars, colVars>>

\* The differ closes an input channel.
RectInputClose(ch) ==
  /\ rchan[ch] = "open"
  /\ rchan' = [rchan EXCEPT ![ch] = "closed"]
  /\ UNCHANGED <<rpc, rhist, wg, rdone, rretained, dcVars, dbVars, sdpVars, waitVars,
            colVars>>

\* The range of a worker ends on its closed channel: the deferred Done.
RectWorkerDone(w) ==
  /\ rpc[w] = "recv"
  /\ rchan[ChanOf(w)] = "closed"
  /\ rpc' = [rpc EXCEPT ![w] = "done"]
  /\ wg' = wg - 1
  /\ UNCHANGED <<rchan, rhist, rdone, rretained, dcVars, dbVars, sdpVars, waitVars, colVars>>

\* The fourth goroutine closing done as soon as one worker has ended (a fault
\* of Rectify).
RectifyCloseEarly ==
  /\ rpc["waiter"] = "wait"
  /\ wg < 3
  /\ rpc' = [rpc EXCEPT !["waiter"] = "done"]
  /\ rdone' = rdone + 1
  /\ UNCHANGED <<rchan, rhist, wg, rretained, dcVars, dbVars, sdpVars, waitVars, colVars>>

\* The fourth goroutine is past r.Wait() and closes done.
RectifyClose ==
  /\ rpc["waiter"] = "wait"
  /\ wg = 0
  /\ rpc' = [rpc EXCEPT !["waiter"] = "done"]
  /\ rdone' = rdone + 1
  /\ UNCHANGED <<rchan, rhist, wg, rretained, dcVars, dbVars, sdpVars, waitVars, colVars>>

NextRect ==
  \/ \E ev \in RectEvents : RectReceive(ev)
  \/ \E w \in Workers, ok \in BOOLEAN : RectCall(w, ok)
  \/ RectRetained
  \/ \E ch \in RectChans : RectInputClose(ch)
  \/ \E w \in Workers : RectWorkerDone(w)
  \/ RectifyClose

Init == InitDC /\ InitDB /\ InitSDP /\ InitWait /\ InitRect /\ InitCollect

Spec == Init /\ [][Next]_vars

SpecWide == Init /\ [][NextWide]_vars

SpecCollect == Init /\ [][NextCollect]_vars

SpecBundle == Init /\ [][NextBundle]_vars

SpecPoller == Init /\ [][NextPoller]_vars

SpecTransport == Init /\ [][NextTransport]_vars

SpecRect == Init /\ [][NextRect]_vars

SpecWait == Init /\ [][NextWait]_vars

\* The events of the runs of Rectify checked under fairness: one per
\* channel and per number of calls.
RectLiveEvents ==
  { [ch |-> "Created", prior |-> NoRDep, post |-> BaseDep],
    [ch |-> "Deleted", prior |-> BaseDep, post |-> NoRDep],
    [ch |-> "Modified", prior |-> BaseDep, post |-> BaseDep],
    [ch |-> "Modified", prior |-> BaseDep, post |-> RDep("c1", "", 2, 2, "r1")] }

NextRectLive ==
  \/ \E ev \in RectLiveEvents : RectReceive(ev)
  \/ \E w \in Workers, ok \in BOOLEAN : RectCall(w, ok)
  \/ RectRetained
  \/ \E ch \in RectChans : RectInputClose(ch)
  \/ \E w \in Workers : RectWorkerDone(w)
  \/ RectifyClose

\* The scheduler runs the goroutines of Rectify, every client call returns,
\* and the differ closes the three channels it writes to.
SpecRectLive ==
  /\ Init
  /\ [][NextRectLive]_vars
  /\ WF_vars(\E w \in Workers, ok \in BOOLEAN : RectCall(w, ok))
  /\ WF_vars(\E w \in Workers : RectWorkerDone(w))
  /\ WF_vars(RectifyClose)
  /\ WF_vars(\E ch \in RectChans : RectInputClose(ch))

\* The scheduler runs every goroutine of the poller, the ticker fires and
\* every request to the status endpoint returns.
SpecPollLive ==
  /\ Init
  /\ [][NextPollLive]_vars
  /\ WF_vars(WaitReturn)
  /\ WF_vars(Deliver)
  /\ WF_vars(CheckFinished)
  /\ WF_vars(\E data \in WaitReplies \cup StableReplies : StartPollOnceLive(TRUE, data))
  /\ WF_vars(Tick)
  /\ WF_vars(SelectTick)
  /\ WF_vars(SelectDone)
  /\ WF_vars(PollReturn)
  /\ WF_vars(AssignResult)
  /\ WF_vars(CloseDone)

\* The scheduler runs Wait once its select has a case to take.
SpecWaitLive == Init /\ [][NextWait]_vars /\ WF_vars(WaitReturn)

\* Receive within the bound of the runs checked under fairness.
ReceiveLive(ev) ==
  /\ BagCardinality(recv) < MaxLiveEvents
  /\ Receive(ev)

NextLive ==
  \/ \E ev \in Events : ReceiveLive(ev)
  \/ \E ch \in InChans : InputClosed(ch)
  \/ LeaveLoop
  \/ \E mid \in ManifestIDs : Flush(mid)
  \/ CloseOutputs
  \/ Consume

\* The scheduler runs concentrate whenever it can take a step, and the
\* consumers keep receiving from the outputs.
SpecLive ==
  /\ Init
  /\ [][NextLive]_vars
  /\ WF_vars(LeaveLoop)
  /\ WF_vars(\E mid \in ManifestIDs : Flush(mid))
  /\ WF_vars(CloseOutputs)
  /\ WF_vars(Consume)

(***************************************************************************)
(* Properties of the DiffConcentrator                                      *)
(***************************************************************************)
\* Every value concentrate has sent or is blocked sending, in order.
AllSends == [i \in 1..Len(sent) |-> sent[i].m] \o outbox

\* The sends made for the bundle filed under m on the four diff outputs.
Emissions(m) ==
  { i \in 1..Len(AllSends) : AllSends[i].key = m /\ AllSends[i].ch \in DiffChans }

ErrorsFor(m) ==
  { i \in 1..Len(AllSends) : AllSends[i].key = m /\ AllSends[i].ch = "Errors" }

\* The sides of an event that are present.
Sides(ev) == {ev.prior, ev.post} \ {NoDep}

\* The received events that mention ManifestID m.
EventsAbout(m) == { ev \in BagToSet(recv) : \E d \in Sides(ev) : d.mid = m }

\* A valid event for m: every side is of m and all sides name the same
\* configured cluster.
ValidFor(ev, m) ==
  /\ \A d \in Sides(ev) : d.mid = m /\ d.cluster \in Clusters
  /\ \A d, e \in Sides(ev) : d.cluster = e.cluster

ClusterOf(ev) == (CHOOSE d \in Sides(ev) : TRUE).cluster

\* The events about m are valid, one per cluster, for the clusters cs.
OnePerCluster(m, cs) ==
  /\ \A ev \in EventsAbout(m) : ValidFor(ev, m) /\ CopiesIn(ev, recv) = 1
  /\ \A e1, e2 \in EventsAbout(m) : ClusterOf(e1) = ClusterOf(e2) => e1 = e2
  /\ { ClusterOf(ev) : ev \in EventsAbout(m) } = cs

AllClosed == \A ch \in OutChans : closed[ch] = 1

AllNil == \A ch \in InChans : inputs[ch] = "nil"

\* C1: when the events received for a ManifestID are exactly one valid event
\* per configured cluster, concentrate has made exactly one send for it, on
\* one of Created/Deleted/Retained/Modified, and no more: not on completion,
\* not at the shutdown flush, and no error.
C1_OneEventWhenComplete ==
  \A m \in ManifestIDs :
    OnePerCluster(m, Clusters) =>
      /\ Cardinality(Emissions(m)) = 1
      /\ ErrorsFor(m) = {}

C1_Witness ==
  /\ pc = "done"
  /\ \E m \in ManifestIDs :
       /\ OnePerCluster(m, Clusters)
       /\ \E i \in 1..Len(sent) : sent[i].m.key = m /\ sent[i].m.ch = "Modified"

\* The output and the value the dispatch rule prescribes for a pair.
RuleFor(mp) ==
  IF mp.prior = NoMan THEN Msg("Created", NoMan, mp.post, "")
  ELSE IF mp.post = NoMan THEN Msg("Deleted", mp.prior, NoMan, "")
  ELSE IF mp.prior = mp.post THEN Msg("Retained", NoMan, mp.post, "")
  ELSE Msg("Modified", mp.prior, mp.post, "")

Untag(t) == Msg(t.ch, t.prior, t.post, t.err)

\* C2: for every resolved ManifestPair with a side present there is exactly
\* one send, on the output chosen in the order Prior absent -> Created with
\* Post, Post absent -> Deleted with Prior, Prior equal to Post -> Retained
\* with Post, otherwise Modified with the pair.
C2_DispatchRule ==
  \A m \in DOMAIN collect :
    (collect[m].consumed /\ manifestPair(collect[m]).err = "ok") =>
      /\ Cardinality(Emissions(m)) = 1
      /\ ErrorsFor(m) \subseteq
           { i \in 1..Len(AllSends) : AllSends[i].err \notin {"blank", "ambiguous"} }
      /\ \A i \in Emissions(m) :
           Untag(AllSends[i]) = RuleFor(manifestPair(collect[m]).mp)

C2_Witness ==
  /\ \E i \in 1..Len(sent) : sent[i].m.ch = "Retained"
  /\ \E i \in 1..Len(sent) : sent[i].m.ch = "Created"

\* C3: when only K of the N clusters (1 <= K < N) have reported valid events
\* for a ManifestID, nothing is sent for it while concentrate is in its loop,
\* and once concentrate has ended exactly one send has been made for it, in
\* the shutdown flush, built from the K clusters' deployments.
C3_PartialFlushedOnce ==
  \A m \in ManifestIDs :
    \A cs \in (SUBSET Clusters) \ {{}, Clusters} :
      OnePerCluster(m, cs) =>
        /\ pc = "loop" => Emissions(m) = {} /\ ErrorsFor(m) = {}
        /\ pc \in {"done", "crashed"} =>
             /\ Cardinality(Emissions(m)) = 1
             /\ \A i \in Emissions(m) :
                  /\ AllSends[i].phase = "flush"
                  /\ { c[1] : c \in AllSends[i].prior.deps \cup AllSends[i].post.deps } = cs

\* C3 for the runs in which the flush does not panic.
C3_PartialFlushedOnceUnlessPanic ==
  \A m \in ManifestIDs :
    \A cs \in (SUBSET Clusters) \ {{}, Clusters} :
      OnePerCluster(m, cs) =>
        /\ pc = "loop" => Emissions(m) = {} /\ ErrorsFor(m) = {}
        /\ pc = "done" =>
             /\ Cardinality(Emissions(m)) = 1
             /\ \A i \in Emissions(m) :
                  /\ AllSends[i].phase = "flush"
                  /\ { c[1] : c \in AllSends[i].prior.deps \cup AllSends[i].post.deps } = cs

\* C4: each of the five outputs is closed exactly once, only after the flush
\* of every unconsumed bundle has finished, and nothing is sent on an output
\* after it was closed.
C4_ClosedOnceAfterFlush ==
  /\ \A ch \in OutChans : closed[ch] <= 1
  /\ (\E ch \in OutChans : closed[ch] > 0) =>
       /\ AllClosed
       /\ outbox = << >>
       /\ \A m \in DOMAIN collect : collect[m].consumed
  /\ pc \in {"done", "crashed"} => AllClosed
  /\ \A i \in 1..Len(sent) : sent[i].closedAt = 0

\* C4 without the clause on the flush.
C4_ClosedOnceNoSendAfter ==
  /\ \A ch \in OutChans : closed[ch] <= 1
  /\ (\E ch \in OutChans : closed[ch] > 0) => AllClosed /\ outbox = << >>
  /\ pc \in {"done", "crashed"} => AllClosed
  /\ \A i \in 1..Len(sent) : sent[i].closedAt = 0

CollisionErrors == {"collisionPrior", "collisionPost"}

InvariantErrors == {"twoClusters", "noCluster"}

\* d is for a cluster that already has a deployment in ds.
ClusterTaken(ds, d) == d # NoDep /\ \E e \in ds : e.cluster = d.cluster

\* d has the DeploymentID (ManifestID and cluster) of a deployment in ds.
IDTaken(ds, d) == d # NoDep /\ \E e \in ds : e.mid = d.mid /\ e.cluster = d.cluster

\* The pair names exactly one cluster, and not the empty one.
NamesOneCluster(pair) ==
  /\ Sides(pair) # {}
  /\ \A d, e \in Sides(pair) : d.cluster = e.cluster
  /\ \A d \in Sides(pair) : d.cluster # ""

NamesNoOneCluster(pair) ==
  \/ pair.prior # NoDep /\ pair.post # NoDep /\ pair.prior.cluster # pair.post.cluster
  \/ pair.prior = NoDep /\ pair.post = NoDep
  \/ \E d \in Sides(pair) : d.cluster = ""

\* C7 as stated: whenever the pair names two different clusters or no cluster
\* (an empty name, or both sides absent), add returns an invariant error and
\* records nothing.
C7_InvariantError ==
  (call.op = "add" /\ NamesNoOneCluster(call.pair)) =>
    /\ call.err \in InvariantErrors
    /\ bundle = call.pre

\* C7 amended: the same for an unconsumed bundle; on a consumed bundle add
\* returns the consumed-bundle error first, and also records nothing.
C7_InvariantErrorUnconsumed ==
  (call.op = "add" /\ NamesNoOneCluster(call.pair)) =>
    /\ ~ call.pre.consumed => call.err \in InvariantErrors
    /\ call.pre.consumed => call.err = "consumed"
    /\ bundle = call.pre

C7_Witness ==
  /\ call.op = "add"
  /\ ~ call.pre.consumed
  /\ call.pre.before # {}
  /\ call.pair.prior # NoDep /\ call.pair.post # NoDep
  /\ call.pair.prior.cluster # call.pair.post.cluster
  /\ ~ IDTaken(call.pre.before, call.pair.prior)
  /\ call.err = "twoClusters"

FoldOf(db) ==
  LET pr == PutbackManifests(db.before)
      po == PutbackManifests(db.after)
  IN  IF Cardinality(pr) > 1 \/ Cardinality(po) > 1 THEN "ambiguous"
      ELSE IF pr = {} /\ po = {} THEN "panic"
      ELSE "ok"

CompleteBundle(db) ==
  /\ clusters(db) = Clusters
  /\ \A d, e \in db.before : d.cluster = e.cluster => d = e
  /\ \A d, e \in db.after : d.cluster = e.cluster => d = e

\* C9: for a complete bundle whose putback succeeds, manifestPair yields one
\* ManifestPair, named by Post's ID when Post is present and by Prior's ID
\* otherwise.
C9_NamedByPostElsePrior ==
  (/\ call.op = "manifestPair"
   /\ CompleteBundle(call.pre)
   /\ call.err # "ambiguous") =>
    /\ call.err = "ok"
    /\ call.mp.prior # NoMan \/ call.mp.post # NoMan
    /\ call.mp.post # NoMan => call.mp.name = call.mp.post.id
    /\ call.mp.post = NoMan => call.mp.name = call.mp.prior.id
    /\ call.mp.name \in ManifestIDs

C9_Witness ==
  /\ call.op = "manifestPair"
  /\ CompleteBundle(call.pre)
  /\ call.err = "ok"
  /\ call.mp.post = NoMan
  /\ call.mp.name = call.mp.prior.id

(***************************************************************************)
(* Properties of SingleDeploymentPoller                                    *)
(***************************************************************************)
\* C10: computeState answers NotStarted when there is no intended deployment
\* for the target, else NotVersion when the intended deployment does not
\* match the expected identity and version, else PendingRequest when the log
\* has no entry for the target, whatever error or classification the entry
\* carries; and it answers none of the three otherwise.
C10_GuardsInOrder ==
  \A i \in 1..Len(computed) :
    LET c == computed[i]
        noIntent == c.intent = NoIntent
        notVersion == c.intent.loc # Target.loc \/ c.intent.tag # Target.tag
    IN  /\ noIntent => c.stat = "NotStarted" /\ c.err = "none"
        /\ (~ noIntent /\ notVersion) => c.stat = "NotVersion" /\ c.err = "none"
        /\ (~ noIntent /\ ~ notVersion /\ c.current = NoRez) =>
             c.stat = "PendingRequest" /\ c.err = "none"
        /\ (~ noIntent /\ ~ notVersion /\ c.current # NoRez) =>
             c.stat \notin {"NotStarted", "NotVersion", "PendingRequest"}

C10_Witness ==
  /\ Len(computed) = 2
  /\ computed[1].intent = NoIntent
  /\ computed[1].current.err = "permanent"
  /\ computed[1].stat = "NotStarted"
  /\ computed[2].intent = AppOld
  /\ computed[2].current.desc = "stable"
  /\ computed[2].stat = "NotVersion"

\* The intended deployment matches the target's identity and version.
IntentMatches(c) ==
  c.intent # NoIntent /\ c.intent.loc = Target.loc /\ c.intent.tag = Target.tag

\* C11: when the intended deployment matches and the log entry of the target
\* carries an error, computeState answers ErredRez (not terminal) with that
\* error when it is transient and Failed (terminal) with that error when it
\* is not, whatever the classification (stable, coming, other) of the entry.
C11_ErrorBeforeClassification ==
  \A i \in 1..Len(computed) :
    LET c == computed[i]
    IN  (IntentMatches(c) /\ c.current # NoRez /\ c.current.err # "none") =>
          /\ c.err = c.current.err
          /\ c.current.err = "transient" =>
               c.stat = "ErredRez" /\ c.stat \notin TerminalStates
          /\ c.current.err # "transient" =>
               c.stat = "Failed" /\ c.stat \in TerminalStates

C11_Witness ==
  /\ Len(computed) = 2
  /\ IntentMatches(computed[2])
  /\ computed[2].current = Rez("app", "stable", "transient")
  /\ computed[2].stat = "ErredRez"
  /\ result = [stat |-> "ErredRez", err |-> "transient"]

\* C12: when the intended deployment matches and the log entry of the target
\* has no error, computeState answers Complete exactly when the entry is
\* stable, TasksStarting exactly when it is coming, and InProgress for any
\* other classification, with no error.
C12_ClassificationDecides ==
  \A i \in 1..Len(computed) :
    LET c == computed[i]
    IN  (IntentMatches(c) /\ c.current # NoRez /\ c.current.err = "none") =>
          /\ c.err = "none"
          /\ c.stat = "Complete" <=> c.current.desc = "stable"
          /\ c.stat = "TasksStarting" <=> c.current.desc = "coming"
          /\ c.stat = "InProgress" <=> c.current.desc \notin {"stable", "coming"}

C12_Witness ==
  /\ Len(computed) = 1
  /\ IntentMatches(computed[1])
  /\ computed[1].current = Rez("app", "updated", "none")
  /\ computed[1].stat = "InProgress"
  /\ result.stat = "InProgress"

\* C13: a poll that ends in a transport failure yields HTTPFailed exactly when
\* it is the 11th or a later failure in a row and ErredHTTP when it is the
\* 1st to the 10th; HTTPFailed is never produced with 10 or fewer failures
\* in a row.
C13_GivesUpAfterTen ==
  /\ failRun >= 11 => result.stat = "HTTPFailed"
  /\ failRun \in 1..10 => result.stat = "ErredHTTP"
  /\ result.stat = "HTTPFailed" => failRun >= 11
  /\ result.stat = "ErredHTTP" => failRun \in 1..10

C13_Witness == failRun = 12 /\ result.stat = "HTTPFailed" /\ prevRun = 10

\* C14: a poll whose retrieval succeeds sets the counter of transport errors
\* to zero, the counter is at all times the length of the current run of
\* failures, and failures on both sides of a successful poll do not add up:
\* a run of at most 10 yields only ErredHTTP, whatever run came before it.
C14_SuccessResetsCounter ==
  /\ httpErrorCount = failRun
  /\ result.stat \notin {"NotPolled", "ErredHTTP", "HTTPFailed"} => httpErrorCount = 0
  /\ (failRun \in 1..10 /\ prevRun > 0) => result.stat = "ErredHTTP"

C14_Witness ==
  /\ prevRun = 10
  /\ failRun = 10
  /\ httpErrorCount = 10
  /\ result.stat = "ErredHTTP"

\* poll has returned to waitForever.
PollReturned == gpc \in {"assign", "close", "exit"} /\ pret.err = "none"

\* C15: once a result with a terminal state has been processed poll returns
\* exactly that state, no status request is issued after that result, and
\* the goroutine running start exits: it is not left in a poll or a send
\* that nobody receives.
C15_StopsAtTerminal ==
  /\ PollReturned => pret.stat = status /\ finished(status)
  /\ ~ late
  /\ ~ (finished(status) /\ spc \in {"poll", "send"})

\* The part of C15 about the state poll returns.
C15_PollReturnsTerminal ==
  /\ PollReturned => pret.stat = status /\ finished(status)
  /\ pdone => finished(status) /\ apc = "exit"
  /\ finished(status) => apc \in {"check", "exit"}

\* C16: when the context ends while Wait is blocked, polling not having come
\* to an end, Wait is woken by the context and returns its error, whatever
\* the goroutines of the poller do afterwards; Wait never stays blocked once
\* the context is done.
C16_CancelEndsWait ==
  /\ [][(ctx = "live" /\ ctx' = "done" /\ ~ wdone) => wpc' = "ctx"]_vars
  /\ [][(wpc = "ctx" /\ wpc' = "returned") => wret'.err = "cancelled"]_vars
  /\ [](wpc = "ctx" => ctx = "done")
  /\ (ctx = "done" ~> wpc = "returned")

C16_Witness ==
  /\ wpc = "returned"
  /\ wret.err = "cancelled"
  /\ ~ finished(status)
  /\ gpc = "poll"
  /\ spc \in {"poll", "send"}

(***************************************************************************)
(* Properties of the Rectifier                                             *)
(***************************************************************************)
\* The worker is done with the i-th event it received.
RectFinished(w, i) == ~ (rpc[w] = "busy" /\ i = Len(rhist[w]))

\* The request ID of a deployment: its RequestId when it has one, else its
\* canonical name.
RequestIDOf(d) == IF d.req = "" THEN d.repo ELSE d.req

VersionDiffers(ev) == ev.prior.repo # ev.post.repo \/ ev.prior.ver # ev.post.ver

CountDiffers(ev) == ev.prior.num # ev.post.num

ResourcesDiffer(ev) == ev.prior.res # ev.post.res

\* C17: for each create event the calls made are one PostRequest with the
\* deployment's cluster, request ID and instance count, then one Deploy for
\* the same cluster and request ID, in that order and nothing else (no Scale,
\* no DeleteRequest); both have been made when the worker is done with it.
C17_CreatePostsThenDeploys ==
  \A w \in Workers : \A i \in 1..Len(rhist[w]) :
    LET e == rhist[w][i]
        d == e.ev.post
    IN  e.ev.ch = "Created" =>
          /\ Len(e.calls) <= 2
          /\ RectFinished(w, i) => Len(e.calls) = 2
          /\ Len(e.calls) >= 1 =>
               /\ e.calls[1].op = "PostRequest"
               /\ e.calls[1].cluster = d.cluster
               /\ e.calls[1].req = RequestIDOf(d)
               /\ e.calls[1].count = d.num
          /\ Len(e.calls) >= 2 =>
               /\ e.calls[2].op = "Deploy"
               /\ e.calls[2].cluster = d.cluster
               /\ e.calls[2].req = e.calls[1].req

C17_Witness ==
  \E i \in 1..Len(rhist["rectifyCreates"]) :
    LET e == rhist["rectifyCreates"][i]
    IN  /\ RectFinished("rectifyCreates", i)
        /\ e.ev.post.req = "q1"
        /\ Len(e.calls) = 2
        /\ e.calls[1].count = 2
        /\ e.calls[2].op = "Deploy"

\* C18: for a modify event in which only the instance count differs the one
\* call made is Scale with Post's count, and for one in which only the
\* version differs the one call made is Deploy of Post's image; no second
\* call, no PostRequest.
C18_ModifyOneChangeOneCall ==
  \A w \in Workers : \A i \in 1..Len(rhist[w]) :
    LET e == rhist[w][i]
    IN  (/\ e.ev.ch = "Modified"
         /\ CountDiffers(e.ev) # VersionDiffers(e.ev)
         /\ ~ ResourcesDiffer(e.ev)) =>
          /\ Len(e.calls) <= 1
          /\ RectFinished(w, i) => Len(e.calls) = 1
          /\ Len(e.calls) = 1 =>
               /\ CountDiffers(e.ev) =>
                    e.calls[1].op = "Scale" /\ e.calls[1].count = e.ev.post.num
               /\ VersionDiffers(e.ev) =>
                    /\ e.calls[1].op = "Deploy"
                    /\ e.calls[1].image = <<e.ev.post.repo, e.ev.post.ver>>

C18_Witness ==
  /\ rpc["rectifyModifys"] = "recv"
  /\ Len(rhist["rectifyModifys"]) = 2
  /\ LET a == rhist["rectifyModifys"][1]
         b == rhist["rectifyModifys"][2]
     IN  /\ CountDiffers(a.ev) /\ ~ VersionDiffers(a.ev) /\ ~ ResourcesDiffer(a.ev)
         /\ a.calls[1].op = "Scale"
         /\ VersionDiffers(b.ev) /\ ~ CountDiffers(b.ev) /\ ~ ResourcesDiffer(b.ev)
         /\ b.calls[1].op = "Deploy"

\* C19: for a modify event in which both the instance count and the version
\* differ the calls made are one Scale with Post's count, then one Deploy of
\* Post's image, in that order and nothing else (no PostRequest).
C19_ModifyScalesThenDeploys ==
  \A w \in Workers : \A i \in 1..Len(rhist[w]) :
    LET e == rhist[w][i]
    IN  (e.ev.ch = "Modified" /\ CountDiffers(e.ev) /\ VersionDiffers(e.ev)) =>
          /\ Len(e.calls) <= 2
          /\ RectFinished(w, i) => Len(e.calls) = 2
          /\ Len(e.calls) >= 1 =>
               e.calls[1].op = "Scale" /\ e.calls[1].count = e.ev.post.num
          /\ Len(e.calls) >= 2 =>
               /\ e.calls[2].op = "Deploy"
               /\ e.calls[2].image = <<e.ev.post.repo, e.ev.post.ver>>

C19_Witness ==
  \E i \in 1..Len(rhist["rectifyModifys"]) :
    LET e == rhist["rectifyModifys"][i]
    IN  /\ RectFinished("rectifyModifys", i)
        /\ CountDiffers(e.ev) /\ VersionDiffers(e.ev)
        /\ Len(e.calls) = 2
        /\ e.calls[1].op = "Scale"
        /\ e.calls[2].op = "Deploy"

\* C20: for a modify event in which only the resource spec differs (same
\* version, same instance count) the one call made is Deploy, and no Scale.
C20_ResourcesChangeDeploys ==
  \A w \in Workers : \A i \in 1..Len(rhist[w]) :
    LET e == rhist[w][i]
    IN  (/\ e.ev.ch = "Modified"
         /\ ResourcesDiffer(e.ev)
         /\ ~ CountDiffers(e.ev)
         /\ ~ VersionDiffers(e.ev)
         /\ RectFinished(w, i)) =>
          /\ Len(e.calls) = 1
          /\ e.calls[1].op = "Deploy"

\* What the rectifier does for such an event: no call at all.
C20_ResourcesChangeIgnored ==
  \A w \in Workers : \A i \in 1..Len(rhist[w]) :
    LET e == rhist[w][i]
    IN  (/\ e.ev.ch = "Modified"
         /\ ~ CountDiffers(e.ev)
         /\ ~ VersionDiffers(e.ev)) => e.calls = << >>

\* The calls made so far for the events received, and how many of them
\* failed.
TotalCalls ==
  LET n(w) == IF rhist[w] = << >> THEN 0
              ELSE LET f[i \in 0..Len(rhist[w])] ==
                         IF i = 0 THEN 0 ELSE f[i - 1] + Len(rhist[w][i].calls)
                   IN  f[Len(rhist[w])]
  IN  n("rectifyCreates") + n("rectifyDeletes") + n("rectifyModifys")

TotalFailed ==
  LET n(w) == IF rhist[w] = << >> THEN 0
              ELSE LET f[i \in 0..Len(rhist[w])] ==
                         IF i = 0 THEN 0 ELSE f[i - 1] + rhist[w][i].failed
                   IN  f[Len(rhist[w])]
  IN  n("rectifyCreates") + n("rectifyDeletes") + n("rectifyModifys")

\* C21: for each delete event the one call made is a DeleteRequest for the
\* deleted deployment's cluster and request ID with an explanatory message,
\* and there is no PostRequest, Deploy or Scale call.
C21_DeleteIssuesDeleteRequest ==
  \A w \in Workers : \A i \in 1..Len(rhist[w]) :
    LET e == rhist[w][i]
        d == e.ev.prior
    IN  e.ev.ch = "Deleted" =>
          /\ Len(e.calls) <= 1
          /\ RectFinished(w, i) => Len(e.calls) = 1
          /\ \A k \in 1..Len(e.calls) :
               /\ e.calls[k].op = "DeleteRequest"
               /\ e.calls[k].cluster = d.cluster
               /\ e.calls[k].req = RequestIDOf(d)
               /\ e.calls[k].msg \notin {"", "-"}

\* C22: for each delete event the one call made is Scale with instance count
\* 0 for the deleted deployment's cluster and request ID, whatever its
\* instance count was, and there is no Deploy or PostRequest call.
C22_DeleteScalesToZero ==
  \A w \in Workers : \A i \in 1..Len(rhist[w]) :
    LET e == rhist[w][i]
        d == e.ev.prior
    IN  e.ev.ch = "Deleted" =>
          /\ Len(e.calls) <= 1
          /\ RectFinished(w, i) => Len(e.calls) = 1
          /\ \A k \in 1..Len(e.calls) :
               /\ e.calls[k].op = "Scale"
               /\ e.calls[k].count = 0
               /\ e.calls[k].cluster = d.cluster
               /\ e.calls[k].req = RequestIDOf(d)

C22_Witness ==
  \E i \in 1..Len(rhist["rectifyDeletes"]) :
    LET e == rhist["rectifyDeletes"][i]
    IN  /\ RectFinished("rectifyDeletes", i)
        /\ e.ev.prior.num = 2
        /\ e.ev.prior.req = "q1"
        /\ Len(e.calls) = 1
        /\ e.calls[1].count = 0

\* C23: the error stream of the Rectifier carries one error for each client
\* call that returned an error, and nothing when every call succeeded.
C23_ErrorsForwarded == Len(ErrorStream) = TotalFailed

\* What the rectifier does with the errors: nothing reaches a stream,
\* however many calls failed.
C23_ErrorsDropped == ErrorStream = << >>

\* C24: a call that fails never stops a worker: every event received, before
\* or after a failure and on whichever channel, gets the calls of its
\* worker's loop body once the worker is done with it, and a worker ends
\* only when its input channel is closed.
C24_FailureDoesNotStopWorker ==
  /\ \A w \in Workers : \A i \in 1..Len(rhist[w]) :
       /\ RectFinished(w, i) => rhist[w][i].calls = PlanOf(rhist[w][i].ev)
       /\ rhist[w][i].failed <= Len(rhist[w][i].calls)
  /\ \A w \in Workers : rpc[w] = "done" => rchan[ChanOf(w)] = "closed"
  /\ wg = Cardinality({ w \in Workers : rpc[w] # "done" })

C24_Witness ==
  /\ \E w \in Workers :
       /\ Len(rhist[w]) = 2
       /\ rpc[w] = "done"
       /\ rhist[w][1].failed = Len(rhist[w][1].calls)
       /\ rhist[w][1].failed > 0
       /\ rhist[w][2].failed = 0
       /\ rhist[w][2].calls # << >>
  /\ rdone = 1

\* C25: done is closed at most once, only when the three input channels are
\* closed and the three workers have made every call for every event they
\* received and ended; and once the three inputs are closed it is closed.
C25_DoneOnceAfterWorkers ==
  /\ [](rdone <= 1)
  /\ [](rdone = 1 =>
          /\ \A ch \in RectChans : rchan[ch] = "closed"
          /\ \A w \in Workers :
               /\ rpc[w] = "done"
               /\ \A i \in 1..Len(rhist[w]) :
                    Len(rhist[w][i].calls) = Len(PlanOf(rhist[w][i].ev)))
  /\ ((\A ch \in RectChans : rchan[ch] = "closed") ~> rdone = 1)

C25_Witness ==
  /\ rdone = 1
  /\ Received(rhist) = MaxRectEvents
  /\ TotalCalls >= 3
  /\ TotalFailed >= 1

\* C26: no call is made beyond the loop bodies of the three workers: values
\* on Retained produce no call, and no call is made twice for one event,
\* whether or not the client returned an error for it.
C26_NoCallBeyondRules ==
  /\ Received(rhist) = 0 => TotalCalls = 0
  /\ \A w \in Workers : \A i \in 1..Len(rhist[w]) :
       LET e == rhist[w][i]
       IN  /\ Len(e.calls) <= 2
           /\ \A j, k \in 1..Len(e.calls) : j # k => e.calls[j].op # e.calls[k].op
           /\ e.ev.ch = "Deleted" => Len(e.calls) <= 1
           /\ (e.ev.ch = "Modified" /\ ~ CountDiffers(e.ev)) =>
                \A k \in 1..Len(e.calls) : e.calls[k].op # "Scale"
           /\ (e.ev.ch = "Modified" /\ ~ VersionDiffers(e.ev)) =>
                \A k \in 1..Len(e.calls) : e.calls[k].op # "Deploy"
           /\ e.ev.ch # "Created" =>
                \A k \in 1..Len(e.calls) : e.calls[k].op # "PostRequest"

C26_Witness ==
  /\ rretained >= 1
  /\ rdone = 1
  /\ \E w \in Workers :
       /\ Len(rhist[w]) = 1
       /\ rhist[w][1].failed = 2
       /\ Len(rhist[w][1].calls) = 2
  /\ TotalCalls = 2

(***************************************************************************)
(* Completeness and aggregation errors in concentrate                      *)
(***************************************************************************)
\* C27: while concentrate is in its loop a bundle has been resolved exactly
\* when the set of clusters represented in it is the set of configured
\* clusters: a bundle with fewer clusters, or with clusters that are not all
\* the configured ones, is left for the shutdown flush.
C27_ResolvedWhenClusterSetComplete ==
  pc = "loop" =>
    \A m \in DOMAIN collect :
      collect[m].consumed <=> clusters(collect[m]) = Clusters

\* What concentrate does: a bundle has been resolved exactly when it holds as
\* many cluster names as there are configured clusters.
C27_ResolvedAtClusterCount ==
  pc = "loop" =>
    \A m \in DOMAIN collect :
      collect[m].consumed <=> Cardinality(clusters(collect[m])) = Cardinality(Clusters)

\* The errors add returns.
AddErrors == {"consumed"} \cup CollisionErrors \cup InvariantErrors

\* The bundle of mid in coll, a new one when there is none yet.
BundleOf(coll, mid) == IF mid \in DOMAIN coll THEN coll[mid] ELSE newDepBundle

\* C28: when add returns an error for a received event, concentrate sends
\* that one error on Errors and nothing else, does not resolve the bundle or
\* touch another one, and is back in its loop for the next event.
C28_AddErrorReportedOnce ==
  [][\A ev \in Events :
       LET mid == KeyOf(ev)
           a == add(BundleOf(collect, mid), ev)
       IN  (recv' = recv (+) SetToBag({ev}) /\ a.err # "ok") =>
             /\ Len(outbox') = 1
             /\ outbox'[1].ch = "Errors"
             /\ outbox'[1].err = a.err
             /\ outbox'[1].err \in AddErrors
             /\ collect'[mid].consumed = BundleOf(collect, mid).consumed
             /\ \A m \in DOMAIN collect : m # mid => collect'[m] = collect[m]
             /\ pc' = "loop"]_vars

\* An error of add was received from Errors, and concentrate then processed
\* another event and emitted for it.
C28_Witness ==
  \E i, j \in 1..Len(sent) :
    /\ i < j
    /\ sent[i].m.ch = "Errors"
    /\ sent[i].m.err \in CollisionErrors
    /\ sent[i].m.phase = "loop"
    /\ sent[j].m.ch \in DiffChans
    /\ sent[j].m.phase = "loop"

\* The aggregation errors: collisions, invariant violations and an ambiguous
\* putback.
AggregationErrors == CollisionErrors \cup InvariantErrors \cup {"ambiguous"}

\* An aggregation error for m is the i-th value sent.
AggregationErrorAt(m, i) ==
  /\ AllSends[i].key = m
  /\ AllSends[i].ch = "Errors"
  /\ AllSends[i].err \in AggregationErrors

\* C29: after an aggregation error has been reported for ManifestID m its
\* bundle is abandoned: nothing more is sent for m, neither an event on the
\* four outputs (on completion or at the shutdown flush) nor a further error.
C29_BundleAbandonedAfterError ==
  \A m \in ManifestIDs : \A i, j \in 1..Len(AllSends) :
    (i < j /\ AggregationErrorAt(m, i)) => AllSends[j].key # m

\* What holds: after an ambiguous putback, which marks the bundle consumed,
\* no event is emitted for m any more.
C29_NoEmissionAfterAmbiguous ==
  \A m \in ManifestIDs : \A i, j \in 1..Len(AllSends) :
    (i < j /\ AllSends[i].key = m /\ AllSends[i].err = "ambiguous") =>
      AllSends[j].ch \notin DiffChans \/ AllSends[j].key # m

\* The ManifestPair of the deployments in the events received about m.
PairOfEvents(m) ==
  LET before == { ev.prior : ev \in EventsAbout(m) } \ {NoDep}
      after == { ev.post : ev \in EventsAbout(m) } \ {NoDep}
  IN  [prior |-> Only(PutbackManifests(before)).m,
       post |-> Only(PutbackManifests(after)).m]

\* C30: an aggregation error for one ManifestID changes nothing for another:
\* once concentrate has ended, a ManifestID whose own events are valid, one
\* per cluster, has the one event its own deployments give, on the output
\* the dispatch rule chooses, as in the run without the other's event.
C30_ErrorsDoNotSpread ==
  \A m \in ManifestIDs : \A cs \in (SUBSET Clusters) \ {{}} :
    (/\ pc \in {"done", "crashed"}
     /\ OnePerCluster(m, cs)
     /\ \E m2 \in ManifestIDs \ {m} : \E i \in 1..Len(AllSends) :
          AggregationErrorAt(m2, i)) =>
      /\ Cardinality(Emissions(m)) = 1
      /\ \A i \in Emissions(m) : Untag(AllSends[i]) = RuleFor(PairOfEvents(m))

\* C30 for the runs in which the flush does not panic.
C30_ErrorsDoNotSpreadUnlessPanic ==
  \A m \in ManifestIDs : \A cs \in (SUBSET Clusters) \ {{}} :
    (/\ pc = "done"
     /\ OnePerCluster(m, cs)
     /\ \E m2 \in ManifestIDs \ {m} : \E i \in 1..Len(AllSends) :
          AggregationErrorAt(m2, i)) =>
      /\ Cardinality(Emissions(m)) = 1
      /\ \A i \in Emissions(m) : Untag(AllSends[i]) = RuleFor(PairOfEvents(m))

(***************************************************************************)
(* Order of arrival, empty bundles, late events                            *)
(***************************************************************************)
\* C31: when the events received for a ManifestID are one valid event per
\* configured cluster, the event emitted for it (output channel, Prior and
\* Post manifests) is the one the set of those events gives, in whatever
\* order and on whichever channels they arrived and whatever was received
\* for other ManifestIDs in between.
C31_OrderIndependent ==
  \A m \in ManifestIDs :
    OnePerCluster(m, Clusters) =>
      /\ Emissions(m) # {}
      /\ \A i \in Emissions(m) : Untag(AllSends[i]) = RuleFor(PairOfEvents(m))

\* The events for m1 came on two different input channels, with an event
\* for m2 received as well.
C31_Witness ==
  /\ OnePerCluster("m1", Clusters)
  /\ Cardinality({ ev.ch : ev \in EventsAbout("m1") }) = 2
  /\ EventsAbout("m2") # {}
  /\ \E i \in 1..Len(sent) : sent[i].m.key = "m1" /\ sent[i].m.ch = "Modified"

\* A bundle with neither a before-side nor an after-side contribution.
EmptyBundle(db) == db.before = {} /\ db.after = {}

\* C32: when a bundle with neither side is resolved, concentrate does not
\* abort: it sends an internal-invariant error for it on Errors and emits
\* nothing for it on the four outputs.
C32_EmptyBundleReportsError ==
  /\ pc \notin {"panic", "crashed"}
  /\ \A m \in DOMAIN collect :
       (EmptyBundle(collect[m]) /\ collect[m].consumed) =>
         /\ Emissions(m) = {}
         /\ \E i \in ErrorsFor(m) : AllSends[i].err = "blank"

\* What concentrate does: resolving a bundle with neither side aborts it,
\* and no error value is ever sent for the blank pair.
C32_EmptyBundleAborts ==
  /\ \A m \in DOMAIN collect :
       (EmptyBundle(collect[m]) /\ collect[m].consumed) => pc \in {"panic", "crashed"}
  /\ \A i \in 1..Len(AllSends) : AllSends[i].err # "blank"

(***************************************************************************)
(* Liveness of polling                                                     *)
(***************************************************************************)
\* C33: while the latest state is not terminal the poller issues another
\* status request at the next tick (start waiting in its select with the
\* goroutine of poll receiving always leads to the result of a new request
\* being sent), polling ends only with a terminal state, which ErredRez is
\* not, and once the cluster has settled on the target Wait eventually
\* returns Complete with a nil error, unless it was cancelled first.
C33_PollsUntilTerminal ==
  /\ ((spc = "select" /\ apc = "recv") ~> spc = "send")
  /\ [](pdone => status \in TerminalStates)
  /\ [](status = "ErredRez" => ~ pdone)
  /\ (stable ~> (wpc = "returned"
                   /\ (wret = Res("Complete", "none") \/ wret.err = "cancelled")))

\* The latest state was ErredRez, polling went on, the cluster settled and
\* the result of the next request, Complete, is being sent.
C33_Witness ==
  /\ status = "ErredRez"
  /\ stable
  /\ msg = Res("Complete", "none")
  /\ spc = "send"
  /\ apc = "recv"
  /\ ctx = "live"
  /\ ~ pdone

(***************************************************************************)
(* Concurrency of the Rectifier                                            *)
(***************************************************************************)
\* C34: while a worker (the delete worker, or any other) is inside a client
\* call that has not returned, each other worker still receives the events
\* of its own channel and its own calls are made and return.
C34_WorkersIndependent ==
  \A w \in Workers : \A v \in Workers \ {w} :
    rpc[w] = "busy" =>
      /\ rpc[v] = "busy" => ENABLED RectCall(v, TRUE)
      /\ (/\ rpc[v] = "recv"
          /\ rchan[ChanOf(v)] = "open"
          /\ Received(rhist) + rretained < MaxRectEvents) =>
           \A ev \in RectEvents : ev.ch = ChanOf(v) => ENABLED RectReceive(ev)

\* The delete worker is inside its call; the create worker has received an
\* event and made both its calls.
C34_Witness ==
  /\ rpc["rectifyDeletes"] = "busy"
  /\ rhist["rectifyDeletes"][1].calls = << >>
  /\ rpc["rectifyCreates"] = "recv"
  /\ Len(rhist["rectifyCreates"]) = 1
  /\ Len(rhist["rectifyCreates"][1].calls) = 2

(***************************************************************************)
(* Shared variables of the poller                                          *)
(***************************************************************************)
\* The goroutine of Wait may still assign resolveState and err: it has not
\* made the assignment that precedes close(done).
MayStillAssign == gpc \notin {"close", "exit"}

\* C35: no variable of the poller is read by one task while another may
\* still write it: Wait reads resolveState only when the goroutine that
\* assigns it is past the assignment, whichever case of its select it
\* returns from, and poll reads status only when the goroutine that updates
\* it has ended.
C35_NoUnsynchronisedAccess ==
  /\ wpc \in {"ctx", "done"} => ~ MayStillAssign
  /\ (gpc = "poll" /\ pdone) => apc = "exit"

\* What holds: the accesses ordered by a close are synchronised, those of
\* the done case of Wait and of poll after <-done.
C35_SynchronisedByClose ==
  /\ wpc = "done" => gpc = "exit"
  /\ (gpc = "poll" /\ pdone) => apc = "exit"

(***************************************************************************)
(* Effects of add on the bundle                                            *)
(***************************************************************************)
\* C36: add is all-or-nothing: when it returns an error (consumed bundle,
\* invariant violation, collision on either side) the before set and the
\* after set of the bundle are what they were before the call.
C36_AddAllOrNothing ==
  (call.op = "add" /\ call.err # "ok") =>
    /\ bundle.before = call.pre.before
    /\ bundle.after = call.pre.after

\* What holds: a failed add leaves the bundle as it was unless the error is
\* the collision of Post, where Prior, if present, has been added to the
\* before set; the after set is untouched by any failed add.
C36_AddKeepsPriorOnPostCollision ==
  (call.op = "add" /\ call.err # "ok") =>
    /\ bundle.after = call.pre.after
    /\ bundle.consumed = call.pre.consumed
    /\ call.err # "collisionPost" => bundle.before = call.pre.before
    /\ call.err = "collisionPost" =>
         bundle.before = call.pre.before \cup ({call.pair.prior} \ {NoDep})

\* C37: once the bundle of a ManifestID has been resolved, every later event
\* for it is rejected by add: the one thing concentrate sends for the event
\* is the error of add on Errors, the bundle and all others stay as they
\* are, and nothing more is emitted for the ManifestID, neither at once nor
\* at the shutdown flush.
C37_LateEventRejected ==
  /\ [][\A ev \in Events :
          LET mid == KeyOf(ev)
          IN  (/\ recv' = recv (+) SetToBag({ev})
               /\ mid \in DOMAIN collect
               /\ collect[mid].consumed) =>
                /\ Len(outbox') = 1
                /\ outbox'[1].ch = "Errors"
                /\ outbox'[1].err = "consumed"
                /\ outbox'[1].key = mid
                /\ collect' = collect
                /\ pc' = "loop"]_vars
  /\ [](\A m \in DOMAIN collect :
          collect[m].consumed => Cardinality(Emissions(m)) <= 1)

\* m1 was resolved in the loop, a late event for it was answered with the
\* error, and concentrate has ended after its flush with one emission for m1.
C37_Witness ==
  /\ pc = "done"
  /\ Cardinality(Emissions("m1")) = 1
  /\ \E i, j \in 1..Len(sent) :
       /\ i < j
       /\ sent[i].m.key = "m1" /\ sent[i].m.ch \in DiffChans /\ sent[i].m.phase = "loop"
       /\ sent[j].m.key = "m1" /\ sent[j].m.err = "consumed"

(***************************************************************************)
(* concentrate and collect                                                 *)
(***************************************************************************)
\* concentrate is blocked in a send that cannot complete: the channel has no
\* room and collect is not receiving from it.
SendBlocked ==
  /\ outbox # << >>
  /\ Len(buf[Head(outbox).ch]) >= cap
  /\ cpc # Head(outbox).ch
  /\ ~ (cpc \in {"errs0", "errs1"} /\ Head(outbox).ch = "Errors")

\* collect is blocked in a range: nothing to receive and the channel open.
RangeBlocked ==
  /\ cpc \in DiffChans
  /\ buf[cpc] = << >>
  /\ closed[cpc] = 0
  /\ ~ (outbox # << >> /\ Head(outbox).ch = cpc)

\* C38: concentrate and collect never block each other for good, and when
\* collect has returned and concentrate has ended every manifest emitted on
\* the four outputs is in the set collect returns.
C38_CollectNeverDeadlocks ==
  /\ ~ (SendBlocked /\ (RangeBlocked \/ cpc = "returned"))
  /\ (cpc = "returned" /\ pc \in {"done", "crashed"}) =>
       \A i \in 1..Len(sent) : sent[i].m.ch \in DiffChans => sent[i].m \in cds

\* What holds: collect returns nil only after the four ranges, with every
\* value sent on the four outputs in its set.
C38_CollectsAllWhenNoError ==
  (cpc = "returned" /\ cerr = "nil" /\ closed["Errors"] = 0) =>
    \A i \in 1..Len(sent) : sent[i].m.ch \in DiffChans => sent[i].m \in cds

(***************************************************************************)
(* What Wait returns                                                       *)
(***************************************************************************)
\* A startup retrieval of waitForever has failed.
RetrievalFailed == gpc \in {"assign", "close", "exit"} /\ pret.err = "http"

\* No status request has been issued and poll was not started.
NoPollIssued ==
  /\ spc = "idle"
  /\ apc = "idle"
  /\ msg = NoRes
  /\ status = "NotPolled"
  /\ httpErrorCount = 0

\* C39: a nil error is returned by Wait only with a terminal state; a state
\* that is not terminal is returned only with the error of the cancellation;
\* and when a startup retrieval fails no status poll is issued and Wait, woken
\* by done, returns Failed with the error of the retrieval.
C39_NilErrorMeansTerminal ==
  /\ wpc = "returned" =>
       /\ wret.err = "none" => wret.stat \in TerminalStates
       /\ wret.stat \notin TerminalStates => wret.err = "cancelled"
       /\ (RetrievalFailed /\ wret.err # "cancelled") => wret = Res("Failed", "http")
  /\ RetrievalFailed => NoPollIssued /\ pret = Res("Failed", "http")
  /\ (wpc = "done" /\ RetrievalFailed) => rstate = Res("Failed", "http")

C39_Witness ==
  /\ wpc = "returned"
  /\ wret = Res("Failed", "http")
  /\ NoPollIssued
  /\ ctx = "live"

(***************************************************************************)
(* Which resolution a poll reports                                         *)
(***************************************************************************)
\* The states of the in-progress resolution that make pollOnce turn to the
\* completed one.
NothingInProgress == {"NotStarted", "NotVersion", "PendingRequest"}

\* The state computed from one resolution of a reply.
StateOf(rstat, deployments) ==
  LET f == stateFeatures(WithIntended(rstat, deployments))
  IN  computeState(f.intent, f.current)

\* C40: a poll whose Retrieve succeeds yields one result: the state and
\* error computed from the in-progress resolution of the reply, unless that
\* state is NotStarted, NotVersion or PendingRequest (as it is when the
\* reply has no in-progress resolution); then, and only then, the completed
\* resolution is looked at and its state and error are the result.
C40_InProgressUnlessNothing ==
  computed # << >> =>
    LET cur == StateOf(reply.inProgress, reply.deployments)
        old == StateOf(reply.completed, reply.deployments)
    IN  /\ reply.inProgress = NoStatus => cur.stat \in NothingInProgress
        /\ cur.stat \notin NothingInProgress =>
             /\ result = [stat |-> cur.stat, err |-> cur.err]
             /\ Len(computed) = 1
        /\ cur.stat \in NothingInProgress =>
             /\ result = [stat |-> old.stat, err |-> old.err]
             /\ Len(computed) = 2

C40_Witness ==
  /\ reply.inProgress # NoStatus
  /\ reply.completed # NoStatus
  /\ Len(computed) = 2
  /\ computed[1].stat = "PendingRequest"
  /\ computed[2].stat = "Complete"
  /\ result = [stat |-> "Complete", err |-> "none"]

====
